---- MODULE Spec2Model ----
(***************************************************************************)
(* Model of the voice_rag backend: the SentenceBuffer segmenter, the       *)
(* PipelineOrchestrator pipelines (batch, text-stream, voice-stream), the  *)
(* SessionManager history and the /ws/voice WebSocket handler.             *)
(*                                                                         *)
(* Text is a sequence of one-character strings, so that the segmenter is   *)
(* computed character by character as the Python code computes it.         *)
(* A step of a coroutine is the code between two of its awaits: asyncio    *)
(* runs that code without interleaving.                                    *)
(*                                                                         *)
(* What the collaborators return (the transcript, the page lookup, the     *)
(* token stream, a synthesis or a store succeeding or raising) is chosen   *)
(* by the environment.  The log `sent` records each call of a notification *)
(* callback with its arguments.  Spec is one WebSocket connection,         *)
(* SpecConcurrent a connection with overlapping utterances, SpecRest a     *)
(* series of REST requests, SpecAll a run that is either, SpecMixed a      *)
(* connection together with REST requests, SpecCancel a connection with    *)
(* overlapping utterances and a cancel message.  The other specifications  *)
(* run one service on its own.                                             *)
(***************************************************************************)
EXTENDS Integers, Sequences, FiniteSets, TLC

(***************************************************************************)
(* Character classes of the regular expressions in orchestrator.py         *)
(***************************************************************************)
UpperLetters ==
    {"A","B","C","D","E","F","G","H","I","J","K","L","M",
     "N","O","P","Q","R","S","T","U","V","W","X","Y","Z"}

LowerLetters ==
    {"a","b","c","d","e","f","g","h","i","j","k","l","m",
     "n","o","p","q","r","s","t","u","v","w","x","y","z"}

Digits == {"0","1","2","3","4","5","6","7","8","9"}

\* \s of the patterns and the characters str.strip() removes
Whitespace == {" ", "\t", "\n", "\r", "\f"}

\* \w : letters, digits and the underscore
WordChars == UpperLetters \cup LowerLetters \cup Digits \cup {"_"}

\* [.!?] of _SENTENCE_END_RE
SentencePunct == {".", "!", "?"}

\* [A-Z"“] of _SENTENCE_END_RE (the lookahead)
SentenceOpeners == UpperLetters \cup {"\""}

\* [,;:] of _CLAUSE_SPLIT_RE
ClausePunct == {",", ";", ":"}

SetMin(S) == CHOOSE x \in S : \A y \in S : x <= y

SetMax(S) == CHOOSE x \in S : \A y \in S : x >= y

\* str.strip(): the text without its leading and trailing whitespace
Strip(s) ==
    LET solid == {i \in 1..Len(s) : s[i] \notin Whitespace}
    IN  IF solid = {} THEN <<>> ELSE SubSeq(s, SetMin(solid), SetMax(solid))

\* the first index after position p (1-based) that holds no whitespace,
\* or Len(s) + 1 when the rest of s is whitespace
SkipWhitespace(s, p) ==
    LET solid == {j \in (p + 1)..Len(s) : s[j] \notin Whitespace}
    IN  IF solid = {} THEN Len(s) + 1 ELSE SetMin(solid)

MIN_SENTENCE_LENGTH == 20

MAX_BUFFER_LENGTH == 500

_ABBREVIATIONS ==
    { <<"M","r">>, <<"M","r","s">>, <<"M","s">>, <<"D","r">>,
      <<"P","r","o","f">>, <<"S","r">>, <<"J","r">>, <<"S","t">>,
      <<"A","v","e">>, <<"B","l","v","d">>,
      <<"D","e","p","t">>, <<"E","s","t">>, <<"F","i","g">>,
      <<"G","e","n">>, <<"G","o","v">>, <<"S","g","t">>,
      <<"C","o","r","p">>, <<"I","n","c">>, <<"L","t","d">>, <<"C","o">>,
      <<"v","s">>, <<"e","t","c">>, <<"a","p","p","r","o","x">>,
      <<"d","e","p","t">>, <<"e","s","t">>, <<"m","i","n">>,
      <<"m","a","x">>, <<"m","i","s","c">>, <<"t","e","c","h">> }

(***************************************************************************)
(* SentenceBuffer                                                          *)
(***************************************************************************)

\* while "\n\n" in self._buffer: split at the first one, emit the stripped
\* text before it when it is not empty
RECURSIVE ParagraphLoop(_, _)
ParagraphLoop(buffer, sentences) ==
    LET breaks == {i \in 1..(Len(buffer) - 1) :
                      buffer[i] = "\n" /\ buffer[i + 1] = "\n"}
    IN  IF breaks = {}
        THEN [buffer |-> buffer, sentences |-> sentences]
        ELSE LET i        == SetMin(breaks)
                 sentence == Strip(SubSeq(buffer, 1, i - 1))
                 after    == SubSeq(buffer, i + 2, Len(buffer))
             IN  ParagraphLoop(after,
                               IF sentence # <<>>
                               THEN Append(sentences, sentence)
                               ELSE sentences)

\* _SENTENCE_END_RE.search(buffer, search_start): the leftmost match at or
\* after search_start (0-based).  A match is a whitespace run that follows
\* one of . ! ? and is followed by an upper-case letter or a quote.
\* start and end are the 0-based span of the match; found = FALSE for None.
SentenceEndSearch(buffer, search_start) ==
    LET n      == Len(buffer)
        lo     == IF search_start < 1 THEN 1 ELSE search_start
        starts == {st \in lo..(n - 1) :
                      /\ buffer[st] \in SentencePunct
                      /\ buffer[st + 1] \in Whitespace
                      /\ LET en == SkipWhitespace(buffer, st + 1)
                         IN  en <= n /\ buffer[en] \in SentenceOpeners}
    IN  IF starts = {}
        THEN [found |-> FALSE, start |-> 0, end |-> 0]
        ELSE LET st == SetMin(starts)
             IN  [found |-> TRUE, start |-> st,
                  end |-> SkipWhitespace(buffer, st + 1) - 1]

\* re.search(r'(\w+)\.$', candidate).group(1): the run of word characters
\* right before a final period; <<>> when there is none
LastWordBeforePeriod(candidate) ==
    LET n == Len(candidate)
    IN  IF n < 2 \/ candidate[n] # "." \/ candidate[n - 1] \notin WordChars
        THEN <<>>
        ELSE LET nonword == {i \in 1..(n - 1) : candidate[i] \notin WordChars}
                 from    == IF nonword = {} THEN 1 ELSE SetMax(nonword) + 1
             IN  SubSeq(candidate, from, n - 1)

\* last_word_match and last_word_match.group(1) in _ABBREVIATIONS
EndsInAbbreviation(candidate) ==
    LastWordBeforePeriod(candidate) \in _ABBREVIATIONS

\* _SINGLE_LETTER_ABBR_RE = \b[A-Z]\.$
EndsInSingleLetter(candidate) ==
    LET n == Len(candidate)
    IN  /\ n >= 2
        /\ candidate[n] = "."
        /\ candidate[n - 1] \in UpperLetters
        /\ (n = 2 \/ candidate[n - 2] \notin WordChars)

\* _DECIMAL_END_RE = \d\.$
EndsInDecimal(candidate) ==
    LET n == Len(candidate)
    IN  n >= 2 /\ candidate[n] = "." /\ candidate[n - 1] \in Digits

TooShortNever(candidate) == FALSE

\* len(candidate) < MIN_SENTENCE_LENGTH
TooShort(candidate) == Len(candidate) < MIN_SENTENCE_LENGTH

SkipSplitShortOnly(candidate) == TooShort(candidate)

\* the four "skip this split" tests of the sentence loop
SkipSplit(candidate) ==
    \/ EndsInAbbreviation(candidate)
    \/ EndsInSingleLetter(candidate)
    \/ EndsInDecimal(candidate)
    \/ TooShort(candidate)

\* the while True loop of add: search, skip or emit, until no match
RECURSIVE SentenceLoop(_, _, _)
SentenceLoop(buffer, search_start, sentences) ==
    LET m == SentenceEndSearch(buffer, search_start)
    IN  IF ~m.found
        THEN [buffer |-> buffer, sentences |-> sentences]
        ELSE LET candidate == Strip(SubSeq(buffer, 1, m.start))
             IN  IF SkipSplit(candidate)
                 THEN SentenceLoop(buffer, m.end, sentences)
                 ELSE SentenceLoop(SubSeq(buffer, m.end + 1, Len(buffer)), 0,
                                   Append(sentences, candidate))

\* the forced split of a buffer longer than MAX_BUFFER_LENGTH at the last
\* match of _CLAUSE_SPLIT_RE = [,;:]\s+(?=[A-Za-z])
ForceSplitDropsPunctuation(buffer, sentences) ==
    LET n       == Len(buffer)
        matches == {st \in 1..(n - 1) :
                       /\ buffer[st] \in ClausePunct
                       /\ buffer[st + 1] \in Whitespace
                       /\ LET en == SkipWhitespace(buffer, st)
                          IN  en <= n /\ buffer[en] \in UpperLetters \cup LowerLetters}
    IN  IF n > MAX_BUFFER_LENGTH /\ matches # {}
        THEN LET last     == SetMax(matches)
                 sentence == Strip(SubSeq(buffer, 1, last - 1))
                 rest     == SubSeq(buffer, SkipWhitespace(buffer, last), n)
             IN  [buffer |-> rest,
                  sentences |-> IF sentence # <<>>
                                THEN Append(sentences, sentence)
                                ELSE sentences]
        ELSE [buffer |-> buffer, sentences |-> sentences]

ForceSplitNever(buffer, sentences) == [buffer |-> buffer, sentences |-> sentences]

ForceSplitAtFirst(buffer, sentences) ==
    LET n       == Len(buffer)
        matches == {st \in 1..(n - 1) :
                       /\ buffer[st] \in ClausePunct
                       /\ buffer[st + 1] \in Whitespace
                       /\ LET en == SkipWhitespace(buffer, st)
                          IN  en <= n /\ buffer[en] \in UpperLetters \cup LowerLetters}
    IN  IF n > MAX_BUFFER_LENGTH /\ matches # {}
        THEN LET first    == SetMin(matches)
                 sentence == Strip(SubSeq(buffer, 1, first))
                 rest     == SubSeq(buffer, SkipWhitespace(buffer, first), n)
             IN  [buffer |-> rest,
                  sentences |-> IF sentence # <<>>
                                THEN Append(sentences, sentence)
                                ELSE sentences]
        ELSE [buffer |-> buffer, sentences |-> sentences]

ForceSplit(buffer, sentences) ==
    LET n       == Len(buffer)
        matches == {st \in 1..(n - 1) :
                       /\ buffer[st] \in ClausePunct
                       /\ buffer[st + 1] \in Whitespace
                       /\ LET en == SkipWhitespace(buffer, st)
                          IN  en <= n /\ buffer[en] \in UpperLetters \cup LowerLetters}
    IN  IF n > MAX_BUFFER_LENGTH /\ matches # {}
        THEN LET last     == SetMax(matches)
                 sentence == Strip(SubSeq(buffer, 1, last))
                 rest     == SubSeq(buffer, SkipWhitespace(buffer, last), n)
             IN  [buffer |-> rest,
                  sentences |-> IF sentence # <<>>
                                THEN Append(sentences, sentence)
                                ELSE sentences]
        ELSE [buffer |-> buffer, sentences |-> sentences]

\* SentenceBuffer.add(token): the new buffer and the sentences returned
SentenceBufferAdd(buffer, token) ==
    LET p == ParagraphLoop(buffer \o token, <<>>)
        s == SentenceLoop(p.buffer, 0, p.sentences)
    IN  ForceSplit(s.buffer, s.sentences)

\* SentenceBuffer.flush(): the stripped rest (<<>> for None); the buffer
\* is empty afterwards
SentenceBufferFlush(buffer) == Strip(buffer)


\* str.split(): the maximal runs of non-whitespace characters, in order
RECURSIVE SplitWords(_)
SplitWords(text) ==
    LET solid == {i \in 1..Len(text) : text[i] \notin Whitespace}
    IN  IF solid = {}
        THEN <<>>
        ELSE LET from == SetMin(solid)
                 gaps == {j \in (from + 1)..Len(text) : text[j] \in Whitespace}
                 to   == IF gaps = {} THEN Len(text) ELSE SetMin(gaps) - 1
             IN  <<SubSeq(text, from, to)>> \o
                 SplitWords(SubSeq(text, to + 1, Len(text)))

(***************************************************************************)
(* _PAGE_REQUEST_RE and _detect_page_request.  A position is the 1-based   *)
(* index of the next character to read; 0 stands for "no match".           *)
(***************************************************************************)
UpperSeq ==
    <<"A","B","C","D","E","F","G","H","I","J","K","L","M",
      "N","O","P","Q","R","S","T","U","V","W","X","Y","Z">>

LowerSeq ==
    <<"a","b","c","d","e","f","g","h","i","j","k","l","m",
      "n","o","p","q","r","s","t","u","v","w","x","y","z">>

\* re.IGNORECASE, str.lower(): one character
LowerChar(c) ==
    IF c \in UpperLetters
    THEN LowerSeq[CHOOSE k \in 1..26 : UpperSeq[k] = c]
    ELSE c

\* str.lower()
Lower(s) == [k \in 1..Len(s) |-> LowerChar(s[k])]

\* the first non-zero position of a sequence of attempts (the regex engine
\* tries them in this order), 0 when every attempt failed
FirstMatch(attempts) ==
    LET hits == {k \in 1..Len(attempts) : attempts[k] # 0}
    IN  IF hits = {} THEN 0 ELSE attempts[SetMin(hits)]

\* a literal word w (in lower case) at position p, case-insensitively
Lit(s, p, w) ==
    IF /\ p # 0
       /\ p + Len(w) - 1 <= Len(s)
       /\ \A k \in 1..Len(w) : LowerChar(s[p + k - 1]) = w[k]
    THEN p + Len(w)
    ELSE 0

\* \s+ before a word: the whole run of whitespace at p
Spaces(s, p) ==
    IF p = 0 \/ p > Len(s) \/ s[p] \notin Whitespace
    THEN 0
    ELSE SkipWhitespace(s, p)

\* an alternation of literal words at p
OneOf(s, p, words) == FirstMatch([k \in 1..Len(words) |-> Lit(s, p, words[k])])

\* (\d+) at p: the position after the longest run of digits
DigitsEnd(s, p) ==
    IF p = 0 \/ p > Len(s) \/ s[p] \notin Digits
    THEN 0
    ELSE LET other == {j \in p..Len(s) : s[j] \notin Digits}
         IN  IF other = {} THEN Len(s) + 1 ELSE SetMin(other)

\* \s+page\s+(?:number\s+)?(\d+) at p: where the digits start, or 0
PageDigits(s, p) ==
    LET b == Spaces(s, Lit(s, Spaces(s, p), <<"p","a","g","e">>))
        d == Spaces(s, Lit(s, b, <<"n","u","m","b","e","r">>))
    IN  IF DigitsEnd(s, d) # 0 THEN d
        ELSE IF DigitsEnd(s, b) # 0 THEN b
        ELSE 0

PageVerbs ==
    <<<<"r","e","a","d">>, <<"s","h","o","w">>, <<"g","e","t">>,
      <<"g","i","v","e">>, <<"t","e","l","l">>>>

\* first branch, (?:read|show|get|give|tell)(?:\s+me)?(?:\s+about)?\s+page...
\* at p: where the digits of group 1 start, or 0
Branch1(s, p) ==
    LET v        == OneOf(s, p, PageVerbs)
        m        == Lit(s, Spaces(s, v), <<"m","e">>)
        about(x) == Lit(s, Spaces(s, x), <<"a","b","o","u","t">>)
    IN  FirstMatch(<<PageDigits(s, about(m)), PageDigits(s, m),
                     PageDigits(s, about(v)), PageDigits(s, v)>>)

\* second branch, what(?:\s+is|.s)\s+on\s+page... at p: where the digits
\* of group 2 start, or 0
Branch2(s, p) ==
    LET w     == Lit(s, p, <<"w","h","a","t">>)
        is    == Lit(s, Spaces(s, w), <<"i","s">>)
        dot_s == IF w # 0 /\ w <= Len(s) /\ s[w] # "\n"
                 THEN Lit(s, w + 1, <<"s">>) ELSE 0
        on(x) == Lit(s, Spaces(s, x), <<"o","n">>)
    IN  FirstMatch(<<PageDigits(s, on(is)), PageDigits(s, on(dot_s))>>)

LaterWords ==
    <<<<"r","e","a","d">>, <<"s","h","o","w">>, <<"g","e","t">>,
      <<"c","o","n","t","e","n","t">>, <<"t","e","x","t">>, <<"w","h","a","t">>>>

\* third branch, page\s+(?:number\s+)?(\d+).*?(?:read|show|...) at p: where
\* the digits of group 3 start, or 0
Branch3Digits(s, p) ==
    LET b == Spaces(s, Lit(s, p, <<"p","a","g","e">>))
        d == Spaces(s, Lit(s, b, <<"n","u","m","b","e","r">>))
    IN  IF DigitsEnd(s, d) # 0 THEN d
        ELSE IF DigitsEnd(s, b) # 0 THEN b
        ELSE 0

\* .*?(?:read|show|get|content|text|what) from position e: the end of the
\* nearest later word on the same line, or 0
LaterWordEnd(s, e) ==
    LET ok == {q \in e..Len(s) :
                 /\ OneOf(s, q, LaterWords) # 0
                 /\ \A j \in e..(q - 1) : s[j] # "\n"}
    IN  IF e = 0 \/ ok = {} THEN 0 ELSE OneOf(s, SetMin(ok), LaterWords)

\* the alternation at p: [digits |-> where the page number starts,
\* end |-> the position after the alternation], digits = 0 for no match
Alternation(s, p) ==
    LET d1 == Branch1(s, p)
        d2 == Branch2(s, p)
        d3 == Branch3Digits(s, p)
    IN  IF d1 # 0 THEN [digits |-> d1, end |-> DigitsEnd(s, d1)]
        ELSE IF d2 # 0 THEN [digits |-> d2, end |-> DigitsEnd(s, d2)]
        ELSE IF d3 # 0 /\ LaterWordEnd(s, DigitsEnd(s, d3)) # 0
        THEN [digits |-> d3, end |-> LaterWordEnd(s, DigitsEnd(s, d3))]
        ELSE [digits |-> 0, end |-> 0]

\* (?:\s+(?:of|from|in)\s+(.+))? at e: group 4, or <<>> when the group did
\* not take part.  \s+ gives characters back until (.+) has one to take;
\* (.+) runs to the end of the line.
HintGroupOfOnly(s, e) ==
    LET w      == OneOf(s, Spaces(s, e), <<<<"o","f">>>>)
        r      == Spaces(s, w)
        starts == {q \in (w + 1)..r : q <= Len(s) /\ s[q] # "\n"}
    IN  IF r = 0 \/ starts = {}
        THEN <<>>
        ELSE LET q    == SetMax(starts)
                 ends == {j \in q..Len(s) : s[j] = "\n"}
             IN  SubSeq(s, q, IF ends = {} THEN Len(s) ELSE SetMin(ends) - 1)

HintGroup(s, e) ==
    LET w      == OneOf(s, Spaces(s, e), <<<<"o","f">>, <<"f","r","o","m">>, <<"i","n">>>>)
        r      == Spaces(s, w)
        starts == {q \in (w + 1)..r : q <= Len(s) /\ s[q] # "\n"}
    IN  IF r = 0 \/ starts = {}
        THEN <<>>
        ELSE LET q    == SetMax(starts)
                 ends == {j \in q..Len(s) : s[j] = "\n"}
             IN  SubSeq(s, q, IF ends = {} THEN Len(s) ELSE SetMin(ends) - 1)

\* int(page_str)
DigitValue(c) == CHOOSE v \in 0..9 : ToString(v) = c

RECURSIVE ToInt(_)
ToInt(digits) ==
    IF digits = <<>> THEN 0
    ELSE 10 * ToInt(SubSeq(digits, 1, Len(digits) - 1)) + DigitValue(digits[Len(digits)])

\* no page request
NoRequest == [found |-> FALSE, page_num |-> 0, hint |-> <<>>]

\* _detect_page_request: _PAGE_REQUEST_RE.search takes the leftmost match;
\* a hint that is empty after strip() counts as no hint
\* lines 149-155: the page number and the hint of a match m
PageRequest(query, m) ==
    [found    |-> TRUE,
     page_num |-> ToInt(SubSeq(query, m.digits, DigitsEnd(query, m.digits) - 1)),
     hint     |-> Strip(HintGroup(query, m.end))]

\* the match that starts at the leftmost of the positions in from
LeftmostMatch(query, from) ==
    IF from = {} THEN NoRequest
    ELSE PageRequest(query, Alternation(query, SetMin(from)))

_detect_page_request(query) ==
    LeftmostMatch(query, {p \in 1..Len(query) : Alternation(query, p).digits # 0})

(***************************************************************************)
(* The document store and the direct page read: list_documents, get_page,  *)
(* _fetch_page, _try_direct_page_read                                      *)
(***************************************************************************)
\* A stored document is [doc_id, filename, sid, pages]: sid is the
\* session_id of its metadata, pages maps the numbers of its stored pages
\* to their texts (ingest_pages stores page_text.strip() and skips empty
\* pages); a plain-text document has no page.

\* str(n) of a number n >= 0
RECURSIVE IntToSeq(_)
IntToSeq(n) ==
    IF n < 10 THEN <<ToString(n)>>
    ELSE IntToSeq(n \div 10) \o <<ToString(n % 10)>>

\* a in b, for strings
Contains(b, a) ==
    \E i \in 1..(Len(b) - Len(a) + 1) : SubSeq(b, i, i + Len(a) - 1) = a

\* the documents whose metadata carry the session id, in the store's order
RECURSIVE SelectDocs(_, _)
SelectDocs(docs, session_id) ==
    IF docs = <<>> THEN <<>>
    ELSE IF Head(docs).sid = session_id
         THEN <<Head(docs)>> \o SelectDocs(Tail(docs), session_id)
         ELSE SelectDocs(Tail(docs), session_id)

\* rag_service.list_documents(session_id): the documents of the session,
\* each with page_count = the number of its distinct page numbers
\* an entry of the list: page_count = the number of distinct page numbers
ListedDocument(doc) ==
    [doc_id     |-> doc.doc_id,
     filename   |-> doc.filename,
     page_count |-> Cardinality(DOMAIN doc.pages)]

Listed(mine) == [i \in 1..Len(mine) |-> ListedDocument(mine[i])]

list_documents(docs, session_id) == Listed(SelectDocs(docs, session_id))

NoPage == [found |-> FALSE, text |-> <<>>, filename |-> <<>>, page_number |-> 0,
           doc_id |-> ""]

\* rag_service.get_page(doc_id, page_number): looked up by the id
\* f"{doc_id}_page_{page_number}" alone, whatever the session
\* the dict get_page returns for a stored page of document d
StoredPage(d, page_number) ==
    [found |-> TRUE, text |-> d.pages[page_number], filename |-> d.filename,
     page_number |-> page_number, doc_id |-> d.doc_id]

PageAt(docs, at, page_number) ==
    IF at = {} THEN NoPage ELSE StoredPage(docs[SetMin(at)], page_number)

get_page(docs, doc_id, page_number) ==
    PageAt(docs, {i \in 1..Len(docs) : /\ docs[i].doc_id = doc_id
                                       /\ page_number \in DOMAIN docs[i].pages},
           page_number)

\* the first document of the list that satisfies the test: its index, 0 = None
FirstWithPages(session_docs) ==
    LET with == {i \in 1..Len(session_docs) : session_docs[i].page_count > 0}
    IN  IF with = {} THEN 0 ELSE SetMin(with)

FirstWithHintCaseSensitive(session_docs, doc_hint) ==
    LET with == {i \in 1..Len(session_docs) :
                    Contains(session_docs[i].filename, doc_hint)}
    IN  IF with = {} THEN 0 ELSE SetMin(with)

\* hint_lower in doc["filename"].lower()
FirstWithHint(session_docs, doc_hint) ==
    LET with == {i \in 1..Len(session_docs) :
                    Contains(Lower(session_docs[i].filename), Lower(doc_hint))}
    IN  IF with = {} THEN 0 ELSE SetMin(with)

\* _fetch_page, lines 160-186: target_doc as an index of session_docs,
\* 0 = None (also when the session has no document)
\* lines 165-175: the hinted document, else the first with pages
HintOrPages(byHint, byPages) == IF byHint # 0 THEN byHint ELSE byPages

TargetDoc(session_docs, doc_hint) ==
    IF session_docs = <<>> THEN 0
    ELSE IF doc_hint # <<>>
         THEN HintOrPages(FirstWithHint(session_docs, doc_hint),
                          FirstWithPages(session_docs))
         ELSE IF Len(session_docs) = 1 THEN 1
              ELSE FirstWithPages(session_docs)

\* a page number of a citation: a number, or None
Page(n) == [none |-> FALSE, n |-> n]

NonePage == [none |-> TRUE, n |-> 0]

NoFetch == [found |-> FALSE, context |-> <<>>, sources |-> <<>>]

\* _fetch_page: the labelled page and its one citation, or None
\* lines 191-201: the labelled text and the citation of a page
Fetched(page, page_num) ==
    IF ~page.found THEN NoFetch
    ELSE [found   |-> TRUE,
          context |-> <<"[","F","u","l","l"," ","p","a","g","e"," ">>
                      \o IntToSeq(page_num)
                      \o <<" ","f","r","o","m"," ">>
                      \o page.filename \o <<"]","\n">> \o page.text,
          sources |-> <<[filename    |-> page.filename,
                         page_number |-> Page(page_num),
                         doc_id      |-> page.doc_id]>>]

\* lines 188-201: get_page of the target document
FetchFrom(docs, session_docs, target, page_num) ==
    IF target = 0 THEN NoFetch
    ELSE Fetched(get_page(docs, session_docs[target].doc_id, page_num), page_num)

FetchIn(docs, session_docs, page_num, doc_hint) ==
    FetchFrom(docs, session_docs, TargetDoc(session_docs, doc_hint), page_num)

_fetch_page(docs, session_id, page_num, doc_hint) ==
    FetchIn(docs, list_documents(docs, session_id), page_num, doc_hint)

\* page_text.split("\n", 1)[1] if "\n" in page_text else page_text
StripLabelKeepAll(page_text) == page_text

StripLabel(page_text) ==
    LET at == {i \in 1..Len(page_text) : page_text[i] = "\n"}
    IN  IF at = {} THEN page_text
        ELSE SubSeq(page_text, SetMin(at) + 1, Len(page_text))

NoDirect == [found |-> FALSE, text |-> <<>>, sources |-> <<>>]

\* lines 213-217: the page without its label, and the citation
DirectRead(result) ==
    IF ~result.found THEN NoDirect
    ELSE [found   |-> TRUE,
          text    |-> StripLabel(result.context),
          sources |-> result.sources]

\* lines 207-212: nothing unless a page is requested and fetched
ReadRequested(docs, session_id, page_req) ==
    IF ~page_req.found THEN NoDirect
    ELSE DirectRead(_fetch_page(docs, session_id, page_req.page_num, page_req.hint))

\* _try_direct_page_read: {"text", "sources"}, or None
TryDirectPageReadNeverNone(docs, session_id, query) ==
    [found |-> TRUE, text |-> <<>>, sources |-> <<>>]

_try_direct_page_read(docs, session_id, query) ==
    ReadRequested(docs, session_id, _detect_page_request(query))

(***************************************************************************)
(* _build_context                                                          *)
(***************************************************************************)
\* A retrieved passage is [doc_id, filename, page_number, text];
\* page_number is -1 for a passage of a plain-text document.

\* "sep".join(parts)
RECURSIVE Join(_, _)
Join(parts, sep) ==
    IF parts = <<>> THEN <<>>
    ELSE IF Len(parts) = 1 THEN parts[1]
         ELSE parts[1] \o sep \o Join(Tail(parts), sep)

\* f"{label}\n{chunk['text']}"
DocPart(chunk) ==
    <<"[","S","o","u","r","c","e",":"," ">> \o chunk.filename
    \o (IF chunk.page_number >= 0
        THEN <<",", " ","p","a","g","e"," ">> \o IntToSeq(chunk.page_number)
        ELSE <<>>)
    \o <<"]","\n">> \o chunk.text

\* source_key = (chunk.get("doc_id", ""), page_num)
SourceKeyDocOnly(chunk) == <<chunk.doc_id, 0>>

SourceKey(chunk) == <<chunk.doc_id, chunk.page_number>>

\* the citation of a passage
Citation(chunk) ==
    [filename    |-> chunk.filename,
     page_number |-> IF chunk.page_number >= 0 THEN Page(chunk.page_number)
                     ELSE NonePage,
     doc_id      |-> chunk.doc_id]

\* the loop over doc_results, lines 236-255: sources and seen_sources
RECURSIVE CollectSources(_, _, _)
CollectSources(doc_results, sources, seen_sources) ==
    IF doc_results = <<>> THEN sources
    ELSE LET chunk == Head(doc_results)
         IN  IF SourceKey(chunk) \notin seen_sources
             THEN CollectSources(Tail(doc_results),
                                 Append(sources, Citation(chunk)),
                                 seen_sources \cup {SourceKey(chunk)})
             ELSE CollectSources(Tail(doc_results), sources, seen_sources)

DocumentContext == <<"D","o","c","u","m","e","n","t"," ","c","o","n","t","e","x","t",":","\n">>

PreviousConversations == <<"P","r","e","v","i","o","u","s"," ","c","o","n","v","e","r","s","a","t","i","o","n","s",":","\n">>

\* _build_context: page_results is what retrieve_pages returned,
\* chunk_results what retrieve returns when it is asked, conv_chunks what
\* retrieve_conversations returned
_build_context(rag_enabled, page_results, chunk_results, conv_chunks) ==
    IF ~rag_enabled THEN [context |-> <<>>, sources |-> <<>>]
    ELSE LET doc_results == IF page_results # <<>> THEN page_results
                            ELSE chunk_results
             doc_parts   == [i \in 1..Len(doc_results) |-> DocPart(doc_results[i])]
             parts       == (IF doc_results # <<>>
                             THEN <<DocumentContext
                                    \o Join(doc_parts, <<"\n","-","-","-","\n">>)>>
                             ELSE <<>>)
                            \o (IF conv_chunks # <<>>
                                THEN <<PreviousConversations
                                       \o Join(conv_chunks, <<"\n","-","-","-","\n">>)>>
                                ELSE <<>>)
         IN  [context |-> Join(parts, <<"\n","\n">>),
              sources |-> CollectSources(doc_results, <<>>, {})]

(***************************************************************************)
(* Bounds and inputs                                                       *)
(***************************************************************************)
\* "end" messages handled on the WebSocket connection (pipelines started)
MaxPipelines == 2

\* fragments the language-model stream yields to one producer
MaxTokens == 2

\* sessions SessionManager.create may create
MaxSessions == 2

\* REST invocations (/api/voice, /api/chat) in one run
MaxCalls == 2

Pipes == 1..MaxPipelines

Calls == 1..MaxCalls

SessionIds == 1..MaxSessions

TokenA == <<"T","h","e"," ","s","u","n"," ","i","s"," ","o","u","t"," ","t","o","d","a","y","."," ","W","e"," ">>

TokenB == <<"c","a","n"," ","w","a","l","k","."," ">>

\* fragments of the language-model stream
TokenSet == {TokenA, TokenB}

PageShort == <<"H","e","l","l","o"," ","w","o","r","l","d">>

PageLong == <<"T","h","e"," ","s","u","n"," ","i","s"," ","o","u","t"," ","t","o","d","a","y","."," ","W","e"," ","c","a","n","\n","w","a","l","k","."," ","G","o",".">>

\* page texts the direct page read can return
\* a page of two paragraphs
PageParagraphs == <<"G","o"," ","n","o","w",".","\n","\n","T","h","e","n"," ","w","e"," ","s","t","o","p",".">>

PageTexts == {PageShort, PageLong, PageParagraphs}

TranscriptBlank == <<" ">>

TranscriptHi == <<"H","i">>

\* what transcription can return: nothing, whitespace, an utterance
Transcripts == {<<>>, TranscriptBlank, TranscriptHi}

\* the message of a chat request
Messages == {<<>>, TranscriptHi}

ResponseOk == <<"O","k">>

\* what batch generation returns
Responses == {ResponseOk}

\* the page a REST request can ask for
RestPages == {PageShort}

\* the tokens of a streamed chat answer
RestTokens == {TokenB}

(***************************************************************************)
(* State                                                                   *)
(***************************************************************************)
VARIABLES
    sessions,       \* SessionManager._sessions: id -> record, or NoSession
    nextSession,    \* the next fresh session id (uuid4 never repeats)
    orchestrators,  \* _orchestrators: the ids that have an orchestrator
    memory,         \* conversation-memory store: the exchanges stored
    audio_buffer,   \* websocket_voice: is audio_buffer non-empty
    cancel_event,   \* websocket_voice: the event the variable names, 0 = None
    pipeline_task,  \* websocket_voice: the task the variable names, 0 = None
    session,        \* websocket_voice: the session the variable names, 0 = unset
    events,         \* the asyncio.Event objects created: is_set()
    handler,        \* websocket_voice: "open" while in its receive loop
    sent,           \* the notifications sent on the socket, per sender
    pipes,          \* one run_pipeline task per "end" message
    executor,       \* pipelines with a synthesize call running in the pool
    utterances,     \* how many utterances ("end" messages) the client sends
    client,         \* what the client uses: the WebSocket or the REST endpoints
    calls,          \* the REST invocations: /api/voice and /api/chat
    documents,      \* the document store as list_documents and get_page see it
    built,          \* a call of _build_context on its own: inputs and result
    generation,     \* a call of LLMService.generate or generate_stream
    segmenter,      \* a SentenceBuffer fed on its own: inputs and outputs
    registry,       \* _orchestrators as a dict of objects, used on its own
    management,     \* the session requests answered: create and delete
    manager,        \* a SessionManager with its timestamps, used on its own
    detector        \* calls of _detect_page_request on its own: query, result

vars == <<sessions, nextSession, orchestrators, memory, audio_buffer,
          cancel_event, pipeline_task, session, events, handler, sent,
          pipes, executor, utterances, client, calls, documents, built,
          generation, segmenter, registry,
          management, manager, detector>>

\* the services exercised on their own, and the document store
Services == <<documents, built, generation, segmenter, registry,
          management, manager, detector>>

NoSession == [exists |-> FALSE, title |-> <<>>, history |-> <<>>, rag_enabled |-> TRUE]

NewChat == <<"N","e","w"," ","c","h","a","t">>

\* SessionData as SessionManager.create builds it
NewSession == [exists |-> TRUE, title |-> NewChat, history |-> <<>>, rag_enabled |-> TRUE]

\* the title append_history derives from the first user message:
\* content[:60].strip(), plus "..." when the content is longer than 60
AutoTitle(content) ==
    LET head == Strip(SubSeq(content, 1, IF Len(content) < 60 THEN Len(content) ELSE 60))
    IN  IF Len(content) > 60 THEN head \o <<".",".",".">> ELSE head

\* SessionManager.append_history: a no-op for an unknown id
append_history(ss, sid, role, content) ==
    IF sid \notin DOMAIN ss \/ ~ss[sid].exists
    THEN ss
    ELSE [ss EXCEPT ![sid] =
            [@ EXCEPT !.history = Append(@, [role |-> role, content |-> content]),
                      !.title = IF role = "user" /\ ss[sid].title = NewChat
                                THEN AutoTitle(content)
                                ELSE @]]

\* step 4/5 of every pipeline: the user turn, then the assistant turn
UpdateHistoryAssistantFirst(ss, sid, user, assistant) ==
    append_history(append_history(ss, sid, "assistant", assistant), sid, "user", user)

UpdateHistoryUserOnly(ss, sid, user, assistant) ==
    append_history(ss, sid, "user", user)

UpdateHistory(ss, sid, user, assistant) ==
    append_history(append_history(ss, sid, "user", user), sid, "assistant", assistant)

\* SessionManager.get_or_create: the id it returns
GetOrCreateId(sid) ==
    IF sid \in SessionIds /\ sessions[sid].exists THEN sid ELSE nextSession

\* ... and the sessions afterwards (create stores a new record)
GetOrCreateSessions(sid) ==
    IF sid \in SessionIds /\ sessions[sid].exists
    THEN sessions
    ELSE [sessions EXCEPT ![nextSession] = NewSession]

\* ... and the id counter afterwards
GetOrCreateNext(sid) ==
    IF sid \in SessionIds /\ sessions[sid].exists THEN nextSession ELSE nextSession + 1

\* get_orchestrator: stores an orchestrator for the id when there is none
get_orchestrator(sid) == orchestrators \cup {sid}

\* rag_service.store_conversation: one more stored exchange
store_conversation(mem, sid, user, assistant) ==
    mem \cup {[sid |-> sid, user |-> user, assistant |-> assistant]}

\* a notification: who sent it (0 = the handler itself), and, for an audio
\* chunk, whether the sender's cancel flag was set when it was sent
Msg(type, from, stage, index, text, flag) ==
    [type |-> type, from |-> from, stage |-> stage, index |-> index,
     text |-> text, flag |-> flag]

\* ws.send_json(message): the socket keeps the order of each sender's
\* messages (sender 0 is the handler, sender p the task of pipeline p)
Send(log, m) == [log EXCEPT ![m.from] = Append(@, m)]

StatusMsg(from, stage) == Msg("status", from, stage, -1, <<>>, FALSE)

\* an item of sentence_queue: a sentence, or None (the sentinel)
Item(s) == [none |-> FALSE, text |-> s]

NoneItem == [none |-> TRUE, text |-> <<>>]

\* the turns a history step added to the history of session sid
NewTurns(before, after, sid) ==
    IF sid \in SessionIds /\ after[sid].exists
    THEN SubSeq(after[sid].history, Len(before[sid].history) + 1,
                Len(after[sid].history))
    ELSE <<>>

\* a REST invocation that has not been made yet.  llm: was the language
\* model called; context: what it was given; llm_ms: timings["llm_ms"],
\* -1 while not recorded; rag: rag_enabled of the session when the
\* invocation started; generated: the fragments generate_stream has
\* produced, yielded: what process_text_stream has yielded to its caller
NoCall ==
    [kind |-> "none", pc |-> "none", sid |-> 0, message |-> <<>>,
     response |-> <<>>, yielded |-> <<>>, tokens |-> 0, llm |-> FALSE,
     turns |-> <<>>, storeRaised |-> FALSE, result |-> "none",
     context |-> <<>>, sources |-> <<>>, llm_ms |-> -1, rag |-> TRUE,
     generated |-> <<>>, stages |-> <<>>, spoken |-> [none |-> TRUE, text |-> <<>>],
     audio |-> "none"]

\* a pipeline that no "end" message has created yet.  enq: the sentences
\* put on the queue; given: the sentences handed to synthesize, in order
NoPipe ==
    [pc |-> "none", event |-> 0, sid |-> 0, transcript |-> <<>>,
     direct |-> FALSE, words |-> <<>>, tokens |-> 0, buf |-> <<>>,
     pending |-> <<>>, cur |-> <<>>, full_response |-> <<>>,
     chunk_index |-> 0, queue |-> <<>>, prod |-> "none", cons |-> "none",
     enq |-> <<>>, handed |-> 0, given |-> <<>>, failed |-> 0, tts_chunks |-> -1,
     committed |-> FALSE, flagAtCommit |-> FALSE, storeRaised |-> FALSE,
     turns |-> <<>>]

\* no call of _build_context on its own
NoContext ==
    [pc |-> "none", rag_enabled |-> TRUE, page_results |-> <<>>,
     chunk_results |-> <<>>, conv_chunks |-> <<>>, context |-> <<>>,
     sources |-> <<>>, session_id |-> 0, pages_collection |-> <<>>,
     doc_collection |-> <<>>, conv_collection |-> <<>>]

\* no call of the language-model service on its own
NoFailure == [kind |-> "none", code |-> 0]

\* no call of the language-model service on its own.  attempt: the loop
\* variable; requests: the requests sent; failures: what each failed
\* attempt raised; sleeps: the delays slept; yielded: the fragments
\* yielded, each with the attempt that produced it; raised: what the call
\* raised to its caller
NoGeneration ==
    [pc |-> "none", mode |-> "none", attempt |-> 0, requests |-> 0,
     failures |-> <<>>, sleeps |-> <<>>, yielded |-> <<>>,
     raised |-> NoFailure]

\* no SentenceBuffer on its own
NoSegmenter ==
    [pc |-> "none", buffer |-> <<>>, fed |-> <<>>, returned |-> <<>>,
     flushed |-> <<>>]

\* _orchestrators = {}: no key has an object (0), no PipelineOrchestrator was
\* constructed, no call of get_orchestrator or remove_orchestrator was made
NoRegistry ==
    [_orchestrators |-> [sid \in SessionIds |-> 0], constructed |-> 0,
     lookups |-> <<>>]

\* an id without a SessionData, with the fields of the dataclass
NoStamped ==
    [exists |-> FALSE, title |-> <<>>, history |-> <<>>, rag_enabled |-> TRUE,
     created_at |-> 0, updated_at |-> 0]

\* no call of a SessionManager method
NoReturn == [op |-> "none", session_id |-> 0, found |-> FALSE]

\* SessionManager() over an empty sessions directory; now is the last reading
\* of time.time(), next the next fresh id, disk the records in the files of
\* the sessions directory, last the last call and whether it found a session
NoManager ==
    [now |-> 0, next |-> 1, _sessions |-> [sid \in SessionIds |-> NoStamped],
     disk |-> [sid \in SessionIds |-> NoStamped], last |-> NoReturn]

\* the state after start-up, before the client has sent anything: a run
\* is one WebSocket connection, or a series of REST requests.  The runs
\* of Spec, SpecRest, SpecAll and SpecConcurrent have no uploaded document
\* (whether a page is found is the environment's choice there) and use
\* no service on its own
Start ==
    /\ documents = <<>>
    /\ built = NoContext
    /\ generation = NoGeneration
    /\ segmenter = NoSegmenter
    /\ registry = NoRegistry
    /\ management = <<>>
    /\ manager = NoManager
    /\ detector = <<>>
    /\ sessions = [i \in SessionIds |-> NoSession]
    /\ nextSession = 1
    /\ orchestrators = {}
    /\ memory = {}
    /\ audio_buffer = FALSE
    /\ cancel_event = 0
    /\ pipeline_task = 0
    /\ session = 0
    /\ events = [e \in Pipes |-> FALSE]
    /\ handler = IF client \in {"websocket", "mixed"} THEN "open" ELSE "closed"
    /\ calls = [i \in Calls |-> NoCall]
    /\ sent = [s \in 0..MaxPipelines |-> <<>>]
    /\ pipes = [p \in Pipes |-> NoPipe]
    /\ executor = {}

\* a connection on which the client sends one utterance
Init ==
    /\ client = "websocket"
    /\ Start
    /\ utterances = 1

\* a run of REST requests, no WebSocket connection
InitRest ==
    /\ client = "rest"
    /\ Start
    /\ utterances = 0

\* a run that is one connection or a series of REST requests
InitAll == Init \/ InitRest

\* a connection on which the client sends a further utterance while the
\* pipeline of an earlier one may still be running
InitConcurrent ==
    /\ client = "websocket"
    /\ Start
    /\ utterances = MaxPipelines


(***************************************************************************)
(* /ws/voice: the receive loop of websocket_voice                          *)
(***************************************************************************)
\* handler-side idle statuses recorded (each cancel message sends one)
MaxCancels == 1

HandlerVars == <<nextSession, orchestrators, audio_buffer, cancel_event,
                 pipeline_task, session, events, handler, utterances, client,
                 calls, Services>>

ConsActive == {"get", "speaking", "synth", "emit"}

\* asyncio.Task.done() of a run_pipeline task
TaskDone(rec) == rec.pc \in {"done", "error", "cancelled"}

\* is asyncio.gather(producer, consumer) still pending
GatherPending(rec) ==
    /\ rec.pc = "gather"
    /\ rec.prod # "failed"
    /\ ~(rec.prod = "done" /\ rec.cons = "done")

\* pipeline_task.cancel(): CancelledError is raised at the await the task
\* is suspended in; a pending gather cancels its children with it
CancelTask(rec) ==
    [rec EXCEPT !.pc = "cancelled",
                !.prod = IF GatherPending(rec) /\ @ = "running"
                         THEN "cancelled" ELSE @,
                !.cons = IF GatherPending(rec) /\ @ \in ConsActive
                         THEN "cancelled" ELSE @]

\* cancel_event.set() when the variable names an event
SetCancelEvent ==
    IF cancel_event # 0 THEN [events EXCEPT ![cancel_event] = TRUE] ELSE events

\* a binary frame: audio_buffer.extend(...)
WsBytes ==
    /\ handler = "open"
    /\ ~audio_buffer
    /\ audio_buffer' = TRUE
    /\ UNCHANGED <<sessions, nextSession, orchestrators, memory, cancel_event,
                   pipeline_task, session, events, handler, sent, pipes,
                   executor, utterances, client, calls, Services>>

\* {"type": "end", "session_id": sid} with audio buffered: a new event, the
\* session and its orchestrator, and a new run_pipeline task
WsEnd(sid) ==
    /\ handler = "open"
    /\ audio_buffer
    /\ GetOrCreateId(sid) \in SessionIds
    /\ \E p \in Pipes :
          /\ p <= utterances
          /\ pipes[p].pc = "none"
          /\ \A q \in 1..(p - 1) : pipes[q].pc # "none"
          /\ cancel_event' = p
          /\ pipeline_task' = p
          /\ pipes' = [pipes EXCEPT ![p].pc = "created"]
    /\ audio_buffer' = FALSE
    /\ sessions' = GetOrCreateSessions(sid)
    /\ nextSession' = GetOrCreateNext(sid)
    /\ session' = GetOrCreateId(sid)
    /\ orchestrators' = get_orchestrator(GetOrCreateId(sid))
    /\ UNCHANGED <<memory, events, handler, sent, executor, utterances, client, calls, Services>>

\* {"type": "cancel"}
WsCancel ==
    /\ handler = "open"
    /\ Len(sent[0]) < MaxCancels
    /\ audio_buffer' = FALSE
    /\ events' = SetCancelEvent
    /\ pipes' = IF pipeline_task # 0 /\ ~TaskDone(pipes[pipeline_task])
                THEN [pipes EXCEPT ![pipeline_task] = CancelTask(@)]
                ELSE pipes
    /\ sent' = Send(sent, StatusMsg(0, "idle"))
    /\ UNCHANGED <<sessions, nextSession, orchestrators, memory, cancel_event,
                   pipeline_task, session, handler, executor, utterances, client, calls, Services>>

\* a "websocket.disconnect" message: break out of the loop
WsDisconnectMessage ==
    /\ handler = "open"
    /\ handler' = "closed"
    /\ UNCHANGED <<sessions, nextSession, orchestrators, memory, audio_buffer,
                   cancel_event, pipeline_task, session, events, sent, pipes,
                   executor, utterances, client, calls, Services>>

\* except WebSocketDisconnect: the flag is set, the task is left alone
WsDisconnectRaised ==
    /\ handler = "open"
    /\ handler' = "closed"
    /\ events' = SetCancelEvent
    /\ UNCHANGED <<sessions, nextSession, orchestrators, memory, audio_buffer,
                   cancel_event, pipeline_task, session, sent, pipes, executor,
                   utterances, client, calls, Services>>

(***************************************************************************)
(* run_pipeline / process_voice_stream, one step per await                 *)
(***************************************************************************)
\* cancel_event.is_set() of the event the invocation was given
CancelSet(rec) == rec.event # 0 /\ events[rec.event]

RunPipelineTailAlwaysResponds(p, rec, out) ==
    IF events[cancel_event]
    THEN /\ pipes' = [pipes EXCEPT ![p] = [rec EXCEPT !.pc = "done"]]
         /\ sent' = out
    ELSE /\ pipes' = [pipes EXCEPT ![p] = [rec EXCEPT !.pc = "sent_response"]]
         /\ sent' = Send(out, Msg("response", p, "", -1, rec.full_response, FALSE))

\* the rest of run_pipeline once process_voice_stream has returned: the
\* response (when there is text) or audio_done, unless the event that the
\* handler's variable names now is set
RunPipelineTail(p, rec, out) ==
    IF events[cancel_event]
    THEN /\ pipes' = [pipes EXCEPT ![p] = [rec EXCEPT !.pc = "done"]]
         /\ sent' = out
    ELSE IF rec.full_response # <<>>
    THEN /\ pipes' = [pipes EXCEPT ![p] = [rec EXCEPT !.pc = "sent_response"]]
         /\ sent' = Send(out, Msg("response", p, "", -1, rec.full_response, FALSE))
    ELSE /\ pipes' = [pipes EXCEPT ![p] = [rec EXCEPT !.pc = "sent_audio_done"]]
         /\ sent' = Send(out, Msg("audio_done", p, "", -1, <<>>, FALSE))

\* run_pipeline's except Exception: the error notification
RunPipelineError(p, rec, out) ==
    /\ pipes' = [pipes EXCEPT ![p] = [rec EXCEPT !.pc = "error"]]
    /\ sent' = Send(out, Msg("error", p, "", -1, <<>>, FALSE))

\* try: store_conversation(...) except Exception: logger.warning(...):
\* the outcome of the invocation when the store did or did not raise
AfterStoreRaises(outcome, raised) == IF raised THEN "raised" ELSE outcome

AfterStore(outcome, raised) == outcome

\* step 4 of process_voice_stream: timings, the two history appends and
\* store_conversation (a failure is logged and swallowed), then the return
\* into run_pipeline
Finish(p, rec, out, ex) ==
    \E storeOk \in BOOLEAN :
       LET after == UpdateHistory(sessions, rec.sid, rec.transcript, rec.full_response)
           done  == [rec EXCEPT !.tts_chunks = rec.chunk_index,
                                !.committed = TRUE,
                                !.flagAtCommit = CancelSet(rec),
                                !.turns = NewTurns(sessions, after, rec.sid),
                                !.storeRaised = ~storeOk]
       IN  /\ sessions' = after
           /\ memory' = IF storeOk
                        THEN store_conversation(memory, rec.sid, rec.transcript,
                                                rec.full_response)
                        ELSE memory
           /\ executor' = ex
           /\ IF AfterStore("ok", ~storeOk) = "ok"
              THEN RunPipelineTail(p, done, out)
              ELSE RunPipelineError(p, done, out)

\* loop.run_in_executor(None, tts_service.synthesize, sentence)
StartSynth(p, rec, out, ex) ==
    /\ pipes' = [pipes EXCEPT ![p] = [rec EXCEPT !.handed = @ + 1,
                                                 !.given = Append(@, rec.cur)]]
    /\ executor' = ex \cup {p}
    /\ sent' = out
    /\ UNCHANGED <<sessions, memory>>

\* the task starts: the arguments of process_voice_stream are read from the
\* handler's variables now; status "transcribing"
TaskStart(p) ==
    /\ pipes[p].pc = "created"
    /\ pipes' = [pipes EXCEPT ![p] = [@ EXCEPT !.pc = "transcribing",
                                               !.event = cancel_event,
                                               !.sid = session]]
    /\ sent' = Send(sent, StatusMsg(p, "transcribing"))
    /\ UNCHANGED <<sessions, memory, executor>>
    /\ UNCHANGED HandlerVars

\* transcribe_bytes; an empty transcript returns at once, otherwise the
\* transcript is sent
Transcribe(p, transcript) ==
    /\ pipes[p].pc = "transcribing"
    /\ IF Strip(transcript) = <<>>
       THEN RunPipelineTail(p, pipes[p], sent)
       ELSE /\ pipes' = [pipes EXCEPT ![p] = [@ EXCEPT !.pc = "transcript_sent",
                                                      !.transcript = transcript]]
            /\ sent' = Send(sent, Msg("transcript", p, "", -1, transcript, FALSE))
    /\ UNCHANGED <<sessions, memory, executor>>
    /\ UNCHANGED HandlerVars

\* status "retrieving"
Retrieving(p) ==
    /\ pipes[p].pc = "transcript_sent"
    /\ pipes' = [pipes EXCEPT ![p].pc = "retrieving"]
    /\ sent' = Send(sent, StatusMsg(p, "retrieving"))
    /\ UNCHANGED <<sessions, memory, executor>>
    /\ UNCHANGED HandlerVars

\* _try_direct_page_read found the page: status "speaking"
PageFound(p, text) ==
    /\ pipes[p].pc = "retrieving"
    /\ pipes' = [pipes EXCEPT ![p] = [@ EXCEPT !.pc = "direct_speaking",
                                               !.direct = TRUE,
                                               !.full_response = text,
                                               !.words = SplitWords(text)]]
    /\ sent' = Send(sent, StatusMsg(p, "speaking"))
    /\ UNCHANGED <<sessions, memory, executor>>
    /\ UNCHANGED HandlerVars

\* no direct page read: _build_context, status "thinking"
PageNotFound(p) ==
    /\ pipes[p].pc = "retrieving"
    /\ pipes' = [pipes EXCEPT ![p].pc = "thinking"]
    /\ sent' = Send(sent, StatusMsg(p, "thinking"))
    /\ UNCHANGED <<sessions, memory, executor>>
    /\ UNCHANGED HandlerVars


\* for word in full_response.split(): the loop up to the first add that
\* returns sentences; it ends when the words run out and breaks when the
\* cancel flag is set
RECURSIVE WordLoop(_, _, _)
WordLoop(words, buf, cancelled) ==
    IF words = <<>> \/ cancelled
    THEN [words |-> <<>>, buf |-> buf, sentences |-> <<>>]
    ELSE LET r == SentenceBufferAdd(buf, Append(Head(words), " "))
         IN  IF r.sentences # <<>>
             THEN [words |-> Tail(words), buf |-> r.buffer, sentences |-> r.sentences]
             ELSE WordLoop(Tail(words), r.buffer, cancelled)

\* the except branch of a sentence's synthesis: chunk_index += 1
AfterSynthFailure(chunk_index) == chunk_index + 1

\* the except branch of the flushed remainder's synthesis in the direct
\* path: the error is logged, chunk_index is left as it is
AfterFlushFailure(chunk_index) == chunk_index

\* audio_chunk_callback(wav_bytes, chunk_index)
ChunkMsg(p, rec) ==
    Msg("audio_chunk", p, "", rec.chunk_index, rec.cur, CancelSet(rec))

\* the direct path from one await to the next: the sentences add returned
\* are synthesized one by one without a look at the flag, then more words
\* are fed, then the flushed remainder is synthesized, then step 4
DirectContinue(p, rec, out, ex) ==
    IF rec.pending # <<>>
    THEN StartSynth(p, [rec EXCEPT !.pc = "direct_synth",
                                   !.cur = Head(rec.pending),
                                   !.pending = Tail(rec.pending)], out, ex)
    ELSE LET w         == WordLoop(rec.words, rec.buf, CancelSet(rec))
             remaining == SentenceBufferFlush(w.buf)
         IN  IF w.sentences # <<>>
             THEN StartSynth(p, [rec EXCEPT !.pc = "direct_synth",
                                            !.cur = Head(w.sentences),
                                            !.pending = Tail(w.sentences),
                                            !.words = w.words,
                                            !.buf = w.buf], out, ex)
             ELSE IF remaining # <<>>
             THEN StartSynth(p, [rec EXCEPT !.pc = "flush_synth",
                                            !.cur = remaining,
                                            !.words = <<>>,
                                            !.buf = <<>>], out, ex)
             ELSE Finish(p, [rec EXCEPT !.words = <<>>, !.buf = <<>>], out, ex)

\* after status "speaking": chunk_index = 0, a new SentenceBuffer, the loop
DirectStart(p) ==
    /\ pipes[p].pc = "direct_speaking"
    /\ DirectContinue(p, pipes[p], sent, executor)
    /\ UNCHANGED HandlerVars

\* the synthesis of a sentence of the word loop returns or raises
DirectSynthReturn(p, ok) ==
    /\ pipes[p].pc = "direct_synth"
    /\ IF ok
       THEN /\ pipes' = [pipes EXCEPT ![p].pc = "direct_emit"]
            /\ sent' = Send(sent, ChunkMsg(p, pipes[p]))
            /\ executor' = executor \ {p}
            /\ UNCHANGED <<sessions, memory>>
       ELSE DirectContinue(p, [pipes[p] EXCEPT
                                  !.chunk_index = AfterSynthFailure(@),
                                  !.failed = @ + 1],
                           sent, executor \ {p})
    /\ UNCHANGED HandlerVars

\* audio_chunk_callback returned: chunk_index += 1, on with the loop
DirectAfterEmit(p) ==
    /\ pipes[p].pc = "direct_emit"
    /\ DirectContinue(p, [pipes[p] EXCEPT !.chunk_index = @ + 1], sent, executor)
    /\ UNCHANGED HandlerVars

\* the synthesis of the flushed remainder returns or raises
FlushSynthReturn(p, ok) ==
    /\ pipes[p].pc = "flush_synth"
    /\ IF ok
       THEN /\ pipes' = [pipes EXCEPT ![p].pc = "flush_emit"]
            /\ sent' = Send(sent, ChunkMsg(p, pipes[p]))
            /\ executor' = executor \ {p}
            /\ UNCHANGED <<sessions, memory>>
       ELSE Finish(p, [pipes[p] EXCEPT
                          !.chunk_index = AfterFlushFailure(@),
                          !.failed = @ + 1],
                   sent, executor \ {p})
    /\ UNCHANGED HandlerVars

\* the remainder's chunk was sent: chunk_index += 1, then step 4
FlushAfterEmit(p) ==
    /\ pipes[p].pc = "flush_emit"
    /\ Finish(p, [pipes[p] EXCEPT !.chunk_index = @ + 1], sent, executor)
    /\ UNCHANGED HandlerVars

(***************************************************************************)
(* The normal path: produce_sentences, consume_sentences and the gather    *)
(***************************************************************************)
\* sentence_queue.put(item)
QueuePutFront(queue, item) == <<item>> \o queue

QueuePut(queue, item) == Append(queue, item)

RECURSIVE QueuePutAll(_, _)
QueuePutAll(queue, sentences) ==
    IF sentences = <<>>
    THEN queue
    ELSE QueuePutAll(QueuePut(queue, Item(Head(sentences))), Tail(sentences))

\* sentence_queue.get(): the item it returns
QueueGet(queue) == Head(queue)

\* if status_callback and chunk_index == 0
SpeakingDueAlways(chunk_index) == TRUE

SpeakingDue(chunk_index) == chunk_index = 0

\* asyncio.gather(producer, consumer) returns when both tasks have returned
GatherCompleteProducerOnly(rec) == rec.prod = "done"

GatherComplete(rec) == rec.prod = "done" /\ rec.cons = "done"

\* create_task(produce_sentences()), create_task(consume_sentences()),
\* await asyncio.gather(...)
StartStages(p) ==
    /\ pipes[p].pc = "thinking"
    /\ pipes' = [pipes EXCEPT ![p] = [@ EXCEPT !.pc = "gather",
                                               !.prod = "running",
                                               !.cons = "get"]]
    /\ UNCHANGED <<sessions, memory, sent, executor>>
    /\ UNCHANGED HandlerVars

\* the stream yields a token: return when the flag is set (no sentinel),
\* otherwise add it and enqueue the sentences add returns
ProducerToken(p, token) ==
    /\ pipes[p].prod = "running"
    /\ pipes[p].tokens < MaxTokens
    /\ LET rec == pipes[p]
           r   == SentenceBufferAdd(rec.buf, token)
       IN  pipes' = [pipes EXCEPT ![p] =
              IF CancelSet(rec)
              THEN [rec EXCEPT !.prod = "done", !.tokens = @ + 1]
              ELSE [rec EXCEPT !.tokens = @ + 1,
                               !.full_response = @ \o token,
                               !.buf = r.buffer,
                               !.queue = QueuePutAll(@, r.sentences),
                               !.enq = @ \o r.sentences]]
    /\ UNCHANGED <<sessions, memory, sent, executor>>
    /\ UNCHANGED HandlerVars

ProducerEndNoSentinel(p) ==
    /\ pipes[p].prod = "running"
    /\ LET rec       == pipes[p]
           remaining == SentenceBufferFlush(rec.buf)
           last      == IF remaining # <<>> THEN <<remaining>> ELSE <<>>
       IN  pipes' = [pipes EXCEPT ![p] =
              [rec EXCEPT !.prod = "done",
                          !.buf = <<>>,
                          !.queue = QueuePutAll(@, last),
                          !.enq = @ \o last]]
    /\ UNCHANGED <<sessions, memory, sent, executor>>
    /\ UNCHANGED HandlerVars

\* the stream is exhausted: the flushed remainder, then the sentinel
ProducerEnd(p) ==
    /\ pipes[p].prod = "running"
    /\ LET rec       == pipes[p]
           remaining == SentenceBufferFlush(rec.buf)
           last      == IF remaining # <<>> THEN <<remaining>> ELSE <<>>
       IN  pipes' = [pipes EXCEPT ![p] =
              [rec EXCEPT !.prod = "done",
                          !.buf = <<>>,
                          !.queue = QueuePut(QueuePutAll(@, last), NoneItem),
                          !.enq = @ \o last]]
    /\ UNCHANGED <<sessions, memory, sent, executor>>
    /\ UNCHANGED HandlerVars

\* generate_stream raises (its retries are used up, or a failure mid-stream)
ProducerFail(p) ==
    /\ pipes[p].prod = "running"
    /\ pipes' = [pipes EXCEPT ![p].prod = "failed"]
    /\ UNCHANGED <<sessions, memory, sent, executor>>
    /\ UNCHANGED HandlerVars

\* sentence_queue.get() returns: the sentinel or a set flag ends the loop;
\* before the first synthesis status "speaking" is sent
ConsumerGet(p) ==
    /\ pipes[p].cons = "get"
    /\ pipes[p].queue # <<>>
    /\ LET rec  == pipes[p]
           item == QueueGet(rec.queue)
           rest == [rec EXCEPT !.queue = Tail(@)]
       IN  IF item.none \/ CancelSet(rec)
           THEN /\ pipes' = [pipes EXCEPT ![p] = [rest EXCEPT !.cons = "done"]]
                /\ UNCHANGED <<sent, executor>>
           ELSE IF SpeakingDue(rec.chunk_index)
           THEN /\ pipes' = [pipes EXCEPT ![p] =
                                [rest EXCEPT !.cons = "speaking", !.cur = item.text]]
                /\ sent' = Send(sent, StatusMsg(p, "speaking"))
                /\ UNCHANGED executor
           ELSE /\ pipes' = [pipes EXCEPT ![p] =
                                [rest EXCEPT !.cons = "synth", !.cur = item.text,
                                             !.handed = @ + 1,
                                             !.given = Append(@, item.text)]]
                /\ executor' = executor \cup {p}
                /\ UNCHANGED sent
    /\ UNCHANGED <<sessions, memory>>
    /\ UNCHANGED HandlerVars

\* status "speaking" was sent: the first synthesis starts
ConsumerAfterSpeaking(p) ==
    /\ pipes[p].cons = "speaking"
    /\ pipes' = [pipes EXCEPT ![p] = [@ EXCEPT !.cons = "synth", !.handed = @ + 1,
                                               !.given = Append(@, pipes[p].cur)]]
    /\ executor' = executor \cup {p}
    /\ UNCHANGED <<sessions, memory, sent>>
    /\ UNCHANGED HandlerVars

\* the synthesis returns (the chunk is sent) or raises (the index advances)
ConsumerSynthReturn(p, ok) ==
    /\ pipes[p].cons = "synth"
    /\ executor' = executor \ {p}
    /\ IF ok
       THEN /\ pipes' = [pipes EXCEPT ![p].cons = "emit"]
            /\ sent' = Send(sent, ChunkMsg(p, pipes[p]))
       ELSE /\ pipes' = [pipes EXCEPT ![p] =
                            [@ EXCEPT !.cons = "get",
                                      !.chunk_index = AfterSynthFailure(@),
                                      !.failed = @ + 1]]
            /\ UNCHANGED sent
    /\ UNCHANGED <<sessions, memory>>
    /\ UNCHANGED HandlerVars

\* audio_chunk_callback returned: chunk_index += 1
ConsumerAfterEmit(p) ==
    /\ pipes[p].cons = "emit"
    /\ pipes' = [pipes EXCEPT ![p] = [@ EXCEPT !.cons = "get", !.chunk_index = @ + 1]]
    /\ UNCHANGED <<sessions, memory, sent, executor>>
    /\ UNCHANGED HandlerVars

\* the gather returns: step 4
GatherDone(p) ==
    /\ pipes[p].pc = "gather"
    /\ GatherComplete(pipes[p])
    /\ Finish(p, pipes[p], sent, executor)
    /\ UNCHANGED HandlerVars

\* the gather re-raises the producer's exception: run_pipeline sends the error
GatherRaise(p) ==
    /\ pipes[p].pc = "gather"
    /\ pipes[p].prod = "failed"
    /\ RunPipelineError(p, pipes[p], sent)
    /\ UNCHANGED <<sessions, memory, executor>>
    /\ UNCHANGED HandlerVars

\* run_pipeline after the response: audio_done
SendAudioDone(p) ==
    /\ pipes[p].pc = "sent_response"
    /\ pipes' = [pipes EXCEPT ![p].pc = "sent_audio_done"]
    /\ sent' = Send(sent, Msg("audio_done", p, "", -1, <<>>, FALSE))
    /\ UNCHANGED <<sessions, memory, executor>>
    /\ UNCHANGED HandlerVars

\* run_pipeline after audio_done: status "idle", and the task is done
SendIdle(p) ==
    /\ pipes[p].pc = "sent_audio_done"
    /\ pipes' = [pipes EXCEPT ![p].pc = "done"]
    /\ sent' = Send(sent, StatusMsg(p, "idle"))
    /\ UNCHANGED <<sessions, memory, executor>>
    /\ UNCHANGED HandlerVars

\* a synthesize call whose awaiting task was cancelled runs on in its
\* thread and returns to nobody
ExecutorReturn(p) ==
    /\ p \in executor
    /\ pipes[p].pc \notin {"direct_synth", "flush_synth"}
    /\ pipes[p].cons # "synth"
    /\ executor' = executor \ {p}
    /\ UNCHANGED <<sessions, memory, sent, pipes>>
    /\ UNCHANGED HandlerVars

(***************************************************************************)
(* The REST endpoints: /api/voice (process_voice), /api/chat (process_text *)
(* and process_text_stream) and DELETE /api/sessions/{id}                  *)
(***************************************************************************)
WsVars == <<audio_buffer, cancel_event, pipeline_task, session, events,
            handler, sent, pipes, executor, utterances, client, Services>>

\* the stages an invocation has entered, in the order of its statements
Through(rec, stages) == [rec EXCEPT !.stages = @ \o stages]

\* process_voice, step 4: tts_service.synthesize(response_text), which
\* returns the audio or raises
Synthesize(rec, synthOk) ==
    [rec EXCEPT !.stages = Append(@, "synthesizing"),
                !.spoken = [none |-> FALSE, text |-> rec.response],
                !.audio = IF synthOk THEN "ok" ELSE "raised"]

\* the invocation's last step: the two history appends, store_conversation
\* (a failure is swallowed), the result
FinishCall(i, rec, ss) ==
    \E storeOk \in BOOLEAN :
       LET after == UpdateHistory(ss, rec.sid, rec.message, rec.response)
       IN  /\ sessions' = after
           /\ memory' = IF storeOk
                        THEN store_conversation(memory, rec.sid, rec.message,
                                                rec.response)
                        ELSE memory
           /\ calls' = [calls EXCEPT ![i] =
                 [rec EXCEPT !.turns = NewTurns(ss, after, rec.sid),
                             !.stages = Append(@, "history"),
                             !.storeRaised = ~storeOk,
                             !.result = AfterStore("ok", ~storeOk),
                             !.pc = IF AfterStore("ok", ~storeOk) = "ok"
                                    THEN "returned" ELSE "raised"]]

\* the endpoint's first lines: get_or_create and get_orchestrator, for the
\* next request of the run
Request(i, sid) ==
    /\ client \in {"rest", "mixed"}
    /\ calls[i].kind = "none"
    /\ \A j \in 1..(i - 1) : calls[j].kind # "none"
    /\ GetOrCreateId(sid) \in SessionIds
    /\ nextSession' = GetOrCreateNext(sid)
    /\ orchestrators' = get_orchestrator(GetOrCreateId(sid))
    /\ UNCHANGED WsVars

NewCall(kind, sid, message) ==
    [NoCall EXCEPT !.kind = kind, !.sid = GetOrCreateId(sid), !.message = message,
                   !.stages = IF kind = "voice" THEN <<"transcribing">> ELSE <<>>]

\* the stages up to the direct answer, and up to the await of generate
ToDirect == <<"page_check", "direct">>

ToGenerate == <<"page_check", "retrieving", "generating">>

\* process_text, the page is read directly: no await up to the result
TextDirect(i, sid, message, text) ==
    /\ Request(i, sid)
    /\ FinishCall(i, Through([NewCall("text", sid, message) EXCEPT !.response = text],
                              ToDirect),
                  GetOrCreateSessions(sid))

\* process_text, normal path: _build_context, then await generate
TextNormal(i, sid, message) ==
    /\ Request(i, sid)
    /\ sessions' = GetOrCreateSessions(sid)
    /\ calls' = [calls EXCEPT ![i] =
                    Through([NewCall("text", sid, message) EXCEPT
                                !.pc = "generating", !.llm = TRUE], ToGenerate)]
    /\ UNCHANGED memory

\* generate returned: timings["llm_ms"] is the measured time (the clock is
\* not modelled: 1 stands for any measurement), then the history step of
\* process_text
TextGenerateReturn(i, response) ==
    /\ calls[i].kind = "text"
    /\ calls[i].pc = "generating"
    /\ FinishCall(i, [calls[i] EXCEPT !.response = response, !.llm_ms = 1],
                  sessions)
    /\ UNCHANGED <<nextSession, orchestrators>>
    /\ UNCHANGED WsVars

\* generate raised (retries used up, or a permanent failure)
GenerateRaise(i) ==
    /\ calls[i].kind \in {"text", "voice"}
    /\ calls[i].pc = "generating"
    /\ calls' = [calls EXCEPT ![i] = [@ EXCEPT !.pc = "raised", !.result = "raised"]]
    /\ UNCHANGED <<sessions, nextSession, orchestrators, memory>>
    /\ UNCHANGED WsVars

\* process_voice with a blank transcript: the empty result (its transcript
\* is ""), no history step
VoiceEmpty(i, sid, transcript) ==
    /\ Request(i, sid)
    /\ Strip(transcript) = <<>>
    /\ sessions' = GetOrCreateSessions(sid)
    /\ calls' = [calls EXCEPT ![i] =
                    [NewCall("voice", sid, <<>>) EXCEPT !.pc = "returned",
                                                       !.result = "empty"]]
    /\ UNCHANGED memory

\* process_voice, the page is read directly: synthesize (it may raise),
\* then the history step
VoiceDirect(i, sid, transcript, text, synthOk) ==
    /\ Request(i, sid)
    /\ Strip(transcript) # <<>>
    /\ LET rec == Synthesize(Through([NewCall("voice", sid, transcript) EXCEPT
                                          !.response = text], ToDirect), synthOk)
       IN  IF synthOk
           THEN FinishCall(i, rec, GetOrCreateSessions(sid))
           ELSE /\ sessions' = GetOrCreateSessions(sid)
                /\ calls' = [calls EXCEPT ![i] =
                                [rec EXCEPT !.pc = "raised", !.result = "raised"]]
                /\ UNCHANGED memory

\* process_voice, normal path: _build_context, then await generate
VoiceNormal(i, sid, transcript) ==
    /\ Request(i, sid)
    /\ Strip(transcript) # <<>>
    /\ sessions' = GetOrCreateSessions(sid)
    /\ calls' = [calls EXCEPT ![i] =
                    Through([NewCall("voice", sid, transcript) EXCEPT
                                !.pc = "generating", !.llm = TRUE], ToGenerate)]
    /\ UNCHANGED memory

VoiceGenerateReturnHistoryFirst(i, response, synthOk) ==
    /\ calls[i].kind = "voice"
    /\ calls[i].pc = "generating"
    /\ FinishCall(i, Synthesize([calls[i] EXCEPT !.response = response,
                                                 !.llm_ms = 1], synthOk),
                  sessions)
    /\ UNCHANGED <<nextSession, orchestrators>>
    /\ UNCHANGED WsVars

\* generate returned: synthesize (it may raise), then the history step
VoiceGenerateReturn(i, response, synthOk) ==
    /\ calls[i].kind = "voice"
    /\ calls[i].pc = "generating"
    /\ LET rec == Synthesize([calls[i] EXCEPT !.response = response,
                                              !.llm_ms = 1], synthOk)
       IN  IF synthOk
           THEN FinishCall(i, rec, sessions)
           ELSE /\ calls' = [calls EXCEPT ![i] =
                                [rec EXCEPT !.pc = "raised", !.result = "raised"]]
                /\ UNCHANGED <<sessions, memory>>
    /\ UNCHANGED <<nextSession, orchestrators>>
    /\ UNCHANGED WsVars

\* process_text_stream, the page is read directly: it is yielded whole
TextStreamDirect(i, sid, message, text) ==
    /\ Request(i, sid)
    /\ sessions' = GetOrCreateSessions(sid)
    /\ calls' = [calls EXCEPT ![i] =
                    Through([NewCall("text_stream", sid, message) EXCEPT
                                !.pc = "yielded", !.response = text,
                                !.yielded = <<text>>], ToDirect)]
    /\ UNCHANGED memory

\* process_text_stream, normal path: _build_context, then the token stream
TextStreamNormal(i, sid, message) ==
    /\ Request(i, sid)
    /\ sessions' = GetOrCreateSessions(sid)
    /\ calls' = [calls EXCEPT ![i] =
                    Through([NewCall("text_stream", sid, message) EXCEPT
                                !.pc = "streaming", !.llm = TRUE], ToGenerate)]
    /\ UNCHANGED memory

TextStreamTokenKeptBack(i, token) ==
    /\ calls[i].pc = "streaming"
    /\ calls[i].tokens < MaxTokens
    /\ calls' = [calls EXCEPT ![i] = [@ EXCEPT !.tokens = @ + 1,
                                               !.generated = Append(@, token),
                                               !.response = @ \o token]]
    /\ UNCHANGED <<sessions, nextSession, orchestrators, memory>>
    /\ UNCHANGED WsVars

\* a token arrives: full_response += token; yield token
TextStreamToken(i, token) ==
    /\ calls[i].pc = "streaming"
    /\ calls[i].tokens < MaxTokens
    /\ calls' = [calls EXCEPT ![i] = [@ EXCEPT !.tokens = @ + 1,
                                               !.generated = Append(@, token),
                                               !.response = @ \o token,
                                               !.yielded = Append(@, token)]]
    /\ UNCHANGED <<sessions, nextSession, orchestrators, memory>>
    /\ UNCHANGED WsVars

\* the stream is exhausted, or the caller resumes after the page: the
\* history step of process_text_stream
TextStreamEnd(i) ==
    /\ calls[i].pc \in {"streaming", "yielded"}
    /\ FinishCall(i, calls[i], sessions)
    /\ UNCHANGED <<nextSession, orchestrators>>
    /\ UNCHANGED WsVars

\* generate_stream raises
TextStreamRaise(i) ==
    /\ calls[i].pc = "streaming"
    /\ calls' = [calls EXCEPT ![i] = [@ EXCEPT !.pc = "raised", !.result = "raised"]]
    /\ UNCHANGED <<sessions, nextSession, orchestrators, memory>>
    /\ UNCHANGED WsVars

\* the caller stops iterating (the client went away): the generator is
\* closed at its yield and the history step never runs
TextStreamAbandon(i) ==
    /\ calls[i].pc \in {"streaming", "yielded"}
    /\ calls' = [calls EXCEPT ![i] = [@ EXCEPT !.pc = "closed", !.result = "closed"]]
    /\ UNCHANGED <<sessions, nextSession, orchestrators, memory>>
    /\ UNCHANGED WsVars

\* SessionManager.delete
delete(ss, sid) == [ss EXCEPT ![sid] = NoSession]

remove_orchestrator_never(sid) == orchestrators

\* remove_orchestrator
remove_orchestrator(sid) == orchestrators \ {sid}

\* rag_service.delete_session_conversations
delete_session_conversations(mem, sid) == {m \in mem : m.sid # sid}

\* DELETE /api/sessions/{sid} of an existing session; a failure to delete
\* its conversation memory is logged and swallowed
DeleteSession(sid, memOk) ==
    /\ client \in {"rest", "mixed"}
    /\ sessions[sid].exists
    /\ sessions' = delete(sessions, sid)
    /\ orchestrators' = remove_orchestrator(sid)
    /\ memory' = IF memOk THEN delete_session_conversations(memory, sid) ELSE memory
    /\ UNCHANGED <<nextSession, calls>>
    /\ UNCHANGED WsVars

Next ==
    \/ WsBytes
    \/ \E sid \in 0..MaxSessions : WsEnd(sid)
    \/ WsCancel
    \/ WsDisconnectMessage
    \/ WsDisconnectRaised
    \/ \E p \in Pipes : TaskStart(p)
    \/ \E p \in Pipes : \E t \in Transcripts : Transcribe(p, t)
    \/ \E p \in Pipes : Retrieving(p)
    \/ \E p \in Pipes : \E text \in PageTexts : PageFound(p, text)
    \/ \E p \in Pipes : PageNotFound(p)
    \/ \E p \in Pipes : DirectStart(p)
    \/ \E p \in Pipes : \E ok \in BOOLEAN : DirectSynthReturn(p, ok)
    \/ \E p \in Pipes : DirectAfterEmit(p)
    \/ \E p \in Pipes : \E ok \in BOOLEAN : FlushSynthReturn(p, ok)
    \/ \E p \in Pipes : FlushAfterEmit(p)
    \/ \E p \in Pipes : StartStages(p)
    \/ \E p \in Pipes : \E token \in TokenSet : ProducerToken(p, token)
    \/ \E p \in Pipes : ProducerEnd(p)
    \/ \E p \in Pipes : ProducerFail(p)
    \/ \E p \in Pipes : ConsumerGet(p)
    \/ \E p \in Pipes : ConsumerAfterSpeaking(p)
    \/ \E p \in Pipes : \E ok \in BOOLEAN : ConsumerSynthReturn(p, ok)
    \/ \E p \in Pipes : ConsumerAfterEmit(p)
    \/ \E p \in Pipes : GatherDone(p)
    \/ \E p \in Pipes : GatherRaise(p)
    \/ \E p \in Pipes : SendAudioDone(p)
    \/ \E p \in Pipes : SendIdle(p)
    \/ \E p \in Pipes : ExecutorReturn(p)

\* one WebSocket connection, one utterance
Spec == Init /\ [][Next]_vars

\* the steps of the REST endpoints
NextRest ==
    \/ \E i \in Calls : \E sid \in 0..MaxSessions : \E m \in Messages :
          \E text \in RestPages : TextDirect(i, sid, m, text)
    \/ \E i \in Calls : \E sid \in 0..MaxSessions : \E m \in Messages :
          TextNormal(i, sid, m)
    \/ \E i \in Calls : \E r \in Responses : TextGenerateReturn(i, r)
    \/ \E i \in Calls : GenerateRaise(i)
    \/ \E i \in Calls : \E sid \in 0..MaxSessions : \E t \in Transcripts :
          VoiceEmpty(i, sid, t)
    \/ \E i \in Calls : \E sid \in 0..MaxSessions : \E t \in Transcripts :
          \E text \in RestPages : \E ok \in BOOLEAN : VoiceDirect(i, sid, t, text, ok)
    \/ \E i \in Calls : \E sid \in 0..MaxSessions : \E t \in Transcripts :
          VoiceNormal(i, sid, t)
    \/ \E i \in Calls : \E r \in Responses : \E ok \in BOOLEAN :
          VoiceGenerateReturn(i, r, ok)
    \/ \E i \in Calls : \E sid \in 0..MaxSessions : \E m \in Messages :
          \E text \in RestPages : TextStreamDirect(i, sid, m, text)
    \/ \E i \in Calls : \E sid \in 0..MaxSessions : \E m \in Messages :
          TextStreamNormal(i, sid, m)
    \/ \E i \in Calls : \E token \in RestTokens : TextStreamToken(i, token)
    \/ \E i \in Calls : TextStreamEnd(i)
    \/ \E i \in Calls : TextStreamRaise(i)
    \/ \E i \in Calls : TextStreamAbandon(i)
    \/ \E sid \in SessionIds : \E ok \in BOOLEAN : DeleteSession(sid, ok)

\* REST requests only
SpecRest == InitRest /\ [][NextRest]_vars

NextAll == Next \/ NextRest

\* every pipeline variant: a run is one connection or a series of requests
SpecAll == InitAll /\ [][NextAll]_vars

(***************************************************************************)
(* The session endpoints next to /api/chat and /api/voice:                 *)
(* POST /api/sessions and DELETE /api/sessions/{id}, found or not          *)
(***************************************************************************)
\* create and delete requests in a run
MaxManagement == 2

TitleTrip == <<"T","r","i","p">>

Titles == {NewChat, TitleTrip}

\* SessionManager.create(title): a new record under a fresh id
create(ss, sid, title) == [ss EXCEPT ![sid] = [NewSession EXCEPT !.title = title]]

\* POST /api/sessions
CreateSession(title) ==
    /\ client = "rest"
    /\ Len(management) < MaxManagement
    /\ nextSession \in SessionIds
    /\ sessions' = create(sessions, nextSession, title)
    /\ nextSession' = nextSession + 1
    /\ management' = Append(management, [op |-> "create", session_id |-> nextSession,
                                         status |-> 200])
    /\ UNCHANGED <<orchestrators, memory, calls>>
    /\ UNCHANGED <<audio_buffer, cancel_event, pipeline_task, session, events,
                   handler, sent, pipes, executor, utterances, client>>
    /\ UNCHANGED <<documents, built, generation, segmenter, registry, manager, detector>>

\* DELETE /api/sessions/{session_id}: 404 when SessionManager.delete returns
\* False; otherwise the orchestrator is removed and the conversation memory
\* deleted (a failure there is logged and swallowed)
DeleteRequest(session_id, memOk) ==
    /\ client = "rest"
    /\ Len(management) < MaxManagement
    /\ IF sessions[session_id].exists
       THEN /\ sessions' = delete(sessions, session_id)
            /\ orchestrators' = remove_orchestrator(session_id)
            /\ memory' = IF memOk
                         THEN delete_session_conversations(memory, session_id)
                         ELSE memory
            /\ management' = Append(management, [op |-> "delete",
                                                 session_id |-> session_id,
                                                 status |-> 200])
       ELSE /\ management' = Append(management, [op |-> "delete",
                                                 session_id |-> session_id,
                                                 status |-> 404])
            /\ UNCHANGED <<sessions, orchestrators, memory>>
    /\ UNCHANGED <<nextSession, calls>>
    /\ UNCHANGED <<audio_buffer, cancel_event, pipeline_task, session, events,
                   handler, sent, pipes, executor, utterances, client>>
    /\ UNCHANGED <<documents, built, generation, segmenter, registry, manager, detector>>

\* create, chat, voice and delete requests, in any order and overlapping
NextManage ==
    \/ \E title \in Titles : CreateSession(title)
    \/ \E sid \in SessionIds : \E ok \in BOOLEAN : DeleteRequest(sid, ok)
    \/ \E i \in Calls : \E sid \in 0..MaxSessions : \E m \in Messages :
          TextNormal(i, sid, m)
    \/ \E i \in Calls : \E r \in Responses : TextGenerateReturn(i, r)
    \/ \E i \in Calls : GenerateRaise(i)
    \/ \E i \in Calls : \E sid \in 0..MaxSessions : \E t \in Transcripts :
          VoiceEmpty(i, sid, t)
    \/ \E i \in Calls : \E sid \in 0..MaxSessions : \E t \in Transcripts :
          VoiceNormal(i, sid, t)
    \/ \E i \in Calls : \E r \in Responses : \E ok \in BOOLEAN :
          VoiceGenerateReturn(i, r, ok)

SpecManage == InitRest /\ [][NextManage]_vars

(***************************************************************************)
(* /api/chat and /api/voice over a document store: the direct page read    *)
(* and _build_context as process_text and process_voice call them          *)
(***************************************************************************)
FileNotes == <<"N","o","t","e","s",".","p","d","f">>

FileBook == <<"b","o","o","k",".","p","d","f">>

FileMemo == <<"m","e","m","o",".","t","x","t">>

\* uploaded documents: session 1's Notes.pdf (pages 1 and 2), book.pdf
\* (page 2 only) and memo.txt (plain text, no page); session 2's Notes.pdf
DocNotes == [doc_id |-> "d1", filename |-> FileNotes, sid |-> 1,
             pages |-> (1 :> PageShort @@ 2 :> PageLong)]

DocBook == [doc_id |-> "d2", filename |-> FileBook, sid |-> 1,
            pages |-> (2 :> PageShort)]

DocMemo == [doc_id |-> "d3", filename |-> FileMemo, sid |-> 1,
            pages |-> <<>>]

DocOther == [doc_id |-> "d4", filename |-> FileNotes, sid |-> 2,
             pages |-> (1 :> PageLong)]

\* the stores a run can start from
Stores == {<<>>, <<DocNotes>>, <<DocMemo>>, <<DocMemo, DocBook>>,
           <<DocBook, DocNotes>>, <<DocOther, DocNotes>>}

QueryPage1 == <<"r","e","a","d"," ","p","a","g","e"," ","1">>

QueryPage2 == <<"S","h","o","w"," ","m","e"," ","p","a","g","e"," ","2">>

QueryPage1Notes == <<"r","e","a","d"," ","p","a","g","e"," ","1"," ","f","r","o","m"," ","n","o","t","e","s">>

QueryPage2Atlas == <<"g","e","t"," ","p","a","g","e"," ","2"," ","o","f"," ","a","t","l","a","s">>

\* the messages and transcripts of the requests
Queries == {QueryPage1, QueryPage2, QueryPage1Notes, QueryPage2Atlas, TranscriptHi}

PassageNotes3 == [doc_id |-> "d1", filename |-> FileNotes, page_number |-> 3,
                  text |-> <<"a">>]

PassageNotes3b == [doc_id |-> "d1", filename |-> FileNotes, page_number |-> 3,
                   text |-> <<"b">>]

PassageMemo == [doc_id |-> "d3", filename |-> FileMemo, page_number |-> -1,
                text |-> <<"c">>]

MemoryHi == <<"U","s","e","r",":"," ","H","i">>

\* what retrieve_pages, retrieve and retrieve_conversations return to a
\* request: nothing; a page and a remembered exchange; no page, and chunks
Retrievals == {<<<<>>, <<>>, <<>>>>,
               <<<<PassageNotes3>>, <<>>, <<MemoryHi>>>>,
               <<<<>>, <<PassageMemo, PassageNotes3, PassageNotes3b>>, <<>>>>}

\* requests in one run over a document store
MaxRequests == 1

Requests == Calls \cap 1..MaxRequests

\* the sessions created (POST /api/sessions) before the run starts
Uploaders == {1}

\* a series of REST requests after documents were uploaded
InitPage ==
    /\ client = "rest"
    /\ sessions = [i \in SessionIds |-> IF i \in Uploaders THEN NewSession
                                        ELSE NoSession]
    /\ nextSession = SetMax(Uploaders) + 1
    /\ orchestrators = {}
    /\ memory = {}
    /\ audio_buffer = FALSE
    /\ cancel_event = 0
    /\ pipeline_task = 0
    /\ session = 0
    /\ events = [e \in Pipes |-> FALSE]
    /\ handler = "closed"
    /\ calls = [i \in Calls |-> NoCall]
    /\ sent = [s \in 0..MaxPipelines |-> <<>>]
    /\ pipes = [p \in Pipes |-> NoPipe]
    /\ executor = {}
    /\ utterances = 0
    /\ documents \in Stores
    /\ built = NoContext
    /\ generation = NoGeneration
    /\ segmenter = NoSegmenter
    /\ registry = NoRegistry
    /\ management = <<>>
    /\ manager = NoManager
    /\ detector = <<>>

set_rag_enabled_or_create(ss, sid, enabled) ==
    [ss EXCEPT ![sid] = [@ EXCEPT !.exists = TRUE, !.rag_enabled = enabled]]

\* SessionManager.set_rag_enabled
set_rag_enabled(ss, sid, enabled) ==
    IF sid \in DOMAIN ss /\ ss[sid].exists
    THEN [ss EXCEPT ![sid] = [@ EXCEPT !.rag_enabled = enabled]]
    ELSE ss

\* PATCH /api/sessions/{sid} with rag_enabled (404 for an unknown session)
UpdateSession(sid, enabled) ==
    /\ client = "rest"
    /\ sessions[sid].exists
    /\ sessions' = set_rag_enabled(sessions, sid, enabled)
    /\ UNCHANGED <<nextSession, orchestrators, memory, calls>>
    /\ UNCHANGED WsVars

\* PipelineOrchestrator.rag_enabled
rag_enabled(ss, sid) ==
    IF sid \in DOMAIN ss /\ ss[sid].exists THEN ss[sid].rag_enabled ELSE TRUE

\* process_text and process_voice up to the await of generate: the direct
\* page read, else _build_context
\* the direct branch: the page is the response, llm_ms is 0; synthesize
\* (process_voice) may raise; then the history step
AnswerDirectly(i, rec, ss, synthOk) ==
    LET call == IF rec.kind = "voice" THEN Synthesize(Through(rec, ToDirect), synthOk)
                ELSE Through(rec, ToDirect)
    IN  IF synthOk
        THEN FinishCall(i, call, ss)
        ELSE /\ sessions' = ss
             /\ calls' = [calls EXCEPT ![i] = [call EXCEPT !.pc = "raised",
                                                           !.result = "raised"]]
             /\ UNCHANGED memory

\* the other branch: _build_context, then await generate
AwaitGenerate(i, call, ss, ctx) ==
    /\ sessions' = ss
    /\ calls' = [calls EXCEPT ![i] =
                    Through([call EXCEPT !.pc = "generating", !.llm = TRUE,
                                         !.context = ctx.context,
                                         !.sources = ctx.sources], ToGenerate)]
    /\ UNCHANGED memory

DirectOrGenerate(i, call, ss, direct, ctx, synthOk) ==
    IF direct.found
    THEN AnswerDirectly(i, [call EXCEPT !.response = direct.text,
                                        !.sources = direct.sources,
                                        !.llm_ms = 0], ss, synthOk)
    ELSE AwaitGenerate(i, call, ss, ctx)

RetrieveFor(i, call, ss, query, enabled, retrieved, synthOk) ==
    DirectOrGenerate(i, [call EXCEPT !.rag = enabled], ss,
                     _try_direct_page_read(documents, call.sid, query),
                     _build_context(enabled, retrieved[1], retrieved[2],
                                    retrieved[3]),
                     synthOk)

RetrieveIn(i, call, ss, query, retrieved, synthOk) ==
    RetrieveFor(i, call, ss, query, rag_enabled(ss, call.sid), retrieved, synthOk)

Retrieve(i, kind, sid, query, retrieved, synthOk) ==
    RetrieveIn(i, NewCall(kind, sid, query), GetOrCreateSessions(sid), query,
               retrieved, synthOk)

\* POST /api/chat: process_text (it synthesizes nothing)
ProcessText(i, sid, message, retrieved) ==
    /\ Request(i, sid)
    /\ Retrieve(i, "text", sid, message, retrieved, TRUE)

\* POST /api/voice: process_voice with a transcript that is not blank;
\* after a direct page read synthesize may raise
ProcessVoice(i, sid, transcript, retrieved, synthOk) ==
    /\ Request(i, sid)
    /\ Strip(transcript) # <<>>
    /\ Retrieve(i, "voice", sid, transcript, retrieved, synthOk)

NextPage ==
    \/ \E sid \in SessionIds, enabled \in BOOLEAN : UpdateSession(sid, enabled)
    \/ \E i \in Requests, sid \in 0..MaxSessions, message \in Queries,
          retrieved \in Retrievals :
          ProcessText(i, sid, message, retrieved)
    \/ \E i \in Requests, sid \in 0..MaxSessions, transcript \in Queries,
          retrieved \in Retrievals, synthOk \in BOOLEAN :
          ProcessVoice(i, sid, transcript, retrieved, synthOk)
    \/ \E i \in Calls, response \in Responses : TextGenerateReturn(i, response)
    \/ \E i \in Calls, response \in Responses, synthOk \in BOOLEAN :
          VoiceGenerateReturn(i, response, synthOk)
    \/ \E i \in Calls : GenerateRaise(i)

SpecPage == InitPage /\ [][NextPage]_vars


(***************************************************************************)
(* SessionManager on its own, with created_at and updated_at.  Every       *)
(* reading of time.time() is later than the one before it.                 *)
(***************************************************************************)
\* readings of the clock in a run
MaxClock == 4

NotManager == <<sessions, nextSession, orchestrators, memory, audio_buffer,
                cancel_event, pipeline_task, session, events, handler,
                sent, pipes, executor, utterances, client, calls,
                documents, built, generation, segmenter, registry, management,
                detector>>

InitManager ==
    /\ client = "manager"
    /\ Start
    /\ utterances = 0

\* SessionData(session_id, title, created_at=now, updated_at=now)
SessionData(title, now) ==
    [exists |-> TRUE, title |-> title, history |-> <<>>, rag_enabled |-> TRUE,
     created_at |-> now, updated_at |-> now]

\* session.updated_at = time.time()
Touch(ss, sid, now) ==
    IF ss[sid].exists THEN [ss EXCEPT ![sid] = [@ EXCEPT !.updated_at = now]] ELSE ss

\* SessionManager.update_title
update_title(ss, sid, title, now) ==
    IF ss[sid].exists
    THEN Touch([ss EXCEPT ![sid] = [@ EXCEPT !.title = title]], sid, now)
    ELSE ss

PersistOnCreateOnly(disk, ss, sid) ==
    IF ss[sid].exists /\ ~disk[sid].exists THEN [disk EXCEPT ![sid] = ss[sid]]
    ELSE disk

\* SessionManager._persist(session_id): the file of the session is written
\* with the record as it is now; nothing is written for an unknown id
_persist(disk, ss, sid) ==
    IF ss[sid].exists THEN [disk EXCEPT ![sid] = ss[sid]] ELSE disk

\* the return of a call
Return(op, sid, found) == [op |-> op, session_id |-> sid, found |-> found]

\* SessionManager.create(title)
ManagerCreate(title) ==
    /\ client = "manager"
    /\ manager.now < MaxClock
    /\ manager.next \in SessionIds
    /\ LET created == [manager._sessions EXCEPT
                          ![manager.next] = SessionData(title, manager.now + 1)]
       IN  manager' = [manager EXCEPT
                          !.now = @ + 1,
                          !.next = @ + 1,
                          !._sessions = created,
                          !.disk = _persist(@, created, manager.next),
                          !.last = Return("create", manager.next, TRUE)]
    /\ UNCHANGED NotManager

\* a method called with an id that has no session: nothing is read or
\* written
NotFound(op, sid) ==
    /\ ~manager._sessions[sid].exists
    /\ manager' = [manager EXCEPT !.last = Return(op, sid, FALSE)]

\* SessionManager.update_title(session_id, title)
ManagerUpdateTitle(sid, title) ==
    /\ client = "manager"
    /\ \/ NotFound("update_title", sid)
       \/ /\ manager._sessions[sid].exists
          /\ manager.now < MaxClock
          /\ LET updated == update_title(manager._sessions, sid, title,
                                         manager.now + 1)
             IN  manager' = [manager EXCEPT
                                !.now = @ + 1,
                                !._sessions = updated,
                                !.disk = _persist(@, updated, sid),
                                !.last = Return("update_title", sid, TRUE)]
    /\ UNCHANGED NotManager

\* SessionManager.append_history(session_id, role, content)
ManagerAppendHistory(sid, role, content) ==
    /\ client = "manager"
    /\ \/ NotFound("append_history", sid)
       \/ /\ manager._sessions[sid].exists
          /\ manager.now < MaxClock
          /\ LET updated == Touch(append_history(manager._sessions, sid, role,
                                                 content),
                                  sid, manager.now + 1)
             IN  manager' = [manager EXCEPT
                                !.now = @ + 1,
                                !._sessions = updated,
                                !.disk = _persist(@, updated, sid),
                                !.last = Return("append_history", sid, TRUE)]
    /\ UNCHANGED NotManager

\* SessionManager.set_rag_enabled(session_id, enabled): the flag is set and
\* the record persisted; the clock is not read, updated_at is not assigned
ManagerSetRagEnabled(sid, enabled) ==
    /\ client = "manager"
    /\ LET updated == set_rag_enabled(manager._sessions, sid, enabled)
       IN  manager' = [manager EXCEPT
                          !._sessions = updated,
                          !.disk = _persist(@, updated, sid),
                          !.last = Return("set_rag_enabled", sid,
                                          manager._sessions[sid].exists)]
    /\ UNCHANGED NotManager

\* SessionManager.get(session_id): the session or None
ManagerGet(sid) ==
    /\ client = "manager"
    /\ manager' = [manager EXCEPT
                      !.last = Return("get", sid, manager._sessions[sid].exists)]
    /\ UNCHANGED NotManager

\* SessionManager.delete(session_id): the entry and the file are removed;
\* False for an unknown id
ManagerDelete(sid) ==
    /\ client = "manager"
    /\ \/ NotFound("delete", sid)
       \/ /\ manager._sessions[sid].exists
          /\ manager' = [manager EXCEPT
                            !._sessions[sid] = NoStamped,
                            !.disk[sid] = NoStamped,
                            !.last = Return("delete", sid, TRUE)]
    /\ UNCHANGED NotManager

\* json.loads of a file written by _persist, and SessionData(**data)
Loaded(file) ==
    [exists      |-> file.exists,
     title       |-> file.title,
     history     |-> [k \in 1..Len(file.history) |->
                         [role |-> file.history[k].role,
                          content |-> file.history[k].content]],
     rag_enabled |-> file.rag_enabled,
     created_at  |-> file.created_at,
     updated_at  |-> file.updated_at]

\* SessionManager._load_all: one session per file of the directory
_load_all(disk) ==
    [sid \in SessionIds |-> IF disk[sid].exists THEN Loaded(disk[sid])
                            ELSE NoStamped]

\* the process starts again: SessionManager() loads the directory
ManagerRestart ==
    /\ client = "manager"
    /\ manager' = [manager EXCEPT !._sessions = _load_all(manager.disk),
                                  !.last = Return("load", 0, TRUE)]
    /\ UNCHANGED NotManager

NextManager ==
    \/ \E title \in Titles : ManagerCreate(title)
    \/ \E sid \in SessionIds : \E title \in Titles : ManagerUpdateTitle(sid, title)
    \/ \E sid \in SessionIds : \E role \in {"user", "assistant"} :
          \E content \in {TranscriptHi, ResponseOk} :
             ManagerAppendHistory(sid, role, content)
    \/ \E sid \in SessionIds : \E enabled \in BOOLEAN :
          ManagerSetRagEnabled(sid, enabled)
    \/ \E sid \in SessionIds : ManagerGet(sid)
    \/ \E sid \in SessionIds : ManagerDelete(sid)
    \/ ManagerRestart

SpecManager == InitManager /\ [][NextManager]_vars

(***************************************************************************)
(* _detect_page_request on its own, over queries put together from a       *)
(* phrasing, a page number and a trailing clause                           *)
(***************************************************************************)
\* calls of _detect_page_request in a run
MaxDetections == 1

\* the page numbers asked for: the digits and what int() makes of them
PageNumbers ==
    {[digits |-> <<"5">>, value |-> 5], [digits |-> <<"2">>, value |-> 2],
     [digits |-> <<"1","2">>, value |-> 12], [digits |-> <<"0","0","7">>, value |-> 7]}

\* the phrasings: what stands before and after the page number, and the
\* branch of _PAGE_REQUEST_RE that is to match
Phrasings ==
    {[before |-> <<"r","e","a","d"," ","p","a","g","e"," ">>, after |-> <<>>, branch |-> 1],
     [before |-> <<"S","h","o","w"," ","m","e"," ","p","a","g","e"," ","n","u","m","b","e","r"," ">>, after |-> <<>>, branch |-> 1],
     [before |-> <<"t","e","l","l"," ","m","e"," ","a","b","o","u","t"," ","p","a","g","e"," ">>, after |-> <<>>, branch |-> 1],
     [before |-> <<"w","h","a","t"," ","i","s"," ","o","n"," ","p","a","g","e"," ">>, after |-> <<>>, branch |-> 2],
     [before |-> <<"W","h","a","t","'","s"," ","o","n"," ","p","a","g","e"," ">>, after |-> <<>>, branch |-> 2],
     [before |-> <<"p","a","g","e"," ">>, after |-> <<" ","c","o","n","t","e","n","t">>, branch |-> 3],
     [before |-> <<"s","o"," ","p","a","g","e"," ","n","u","m","b","e","r"," ">>, after |-> <<" ","p","l","e","a","s","e"," ","s","h","o","w">>, branch |-> 3]}

\* the trailing clauses: the text and the hint it names (<<>> for none)
Trailers ==
    {[text |-> <<>>, hint |-> <<>>],
     [text |-> <<" ","o","f"," ","t","h","e"," ","m","a","n","u","a","l">>, hint |-> <<"t","h","e"," ","m","a","n","u","a","l">>],
     [text |-> <<" ","f","r","o","m"," ","N","o","t","e","s",".","p","d","f">>, hint |-> <<"N","o","t","e","s",".","p","d","f">>],
     [text |-> <<" ","i","n"," "," ","m","y"," ","b","o","o","k"," ">>, hint |-> <<"m","y"," ","b","o","o","k">>]}

\* queries that name no page
QueryBudget == <<"t","e","l","l"," ","m","e"," ","a","b","o","u","t"," ","t","h","e"," ","b","u","d","g","e","t"," ","r","e","p","o","r","t">>

QueryPageFive == <<"p","a","g","e"," ","f","i","v","e">>

QueryReadThePage == <<"r","e","a","d"," ","t","h","e"," ","p","a","g","e">>

PlainQueries == {QueryBudget, QueryPageFive, QueryReadThePage}

\* the query a phrasing, a number and a trailing clause make
Phrase(ph, n, tr) == ph.before \o n.digits \o ph.after \o tr.text

NotDetector == <<sessions, nextSession, orchestrators, memory, audio_buffer,
                 cancel_event, pipeline_task, session, events, handler,
                 sent, pipes, executor, utterances, client, calls,
                 documents, built, generation, segmenter, registry, management,
                 manager>>

InitDetect ==
    /\ client = "detector"
    /\ Start
    /\ utterances = 0

\* self._detect_page_request(query)
Detect(query) ==
    /\ client = "detector"
    /\ Len(detector) < MaxDetections
    /\ detector' = Append(detector, [query |-> query,
                                     result |-> _detect_page_request(query)])
    /\ UNCHANGED NotDetector

NextDetect ==
    \/ \E ph \in Phrasings : \E n \in PageNumbers : \E tr \in Trailers :
          Detect(Phrase(ph, n, tr))
    \/ \E query \in PlainQueries : Detect(query)

SpecDetect == InitDetect /\ [][NextDetect]_vars

(***************************************************************************)
(* _build_context on its own, over the lists retrieval can return          *)
(***************************************************************************)
PassageNotes4 == [doc_id |-> "d1", filename |-> FileNotes, page_number |-> 4,
                  text |-> <<"d">>]

\* the passages retrieval can return
Passages == {PassageNotes3, PassageNotes3b, PassageNotes4, PassageMemo}

\* the passages of one retrieval (retrieve_pages is called with k=3)
MaxPassages == 3

\* the sequences over S of a length up to n
SeqsUpTo(S, n) == UNION {[1..k -> S] : k \in 0..n}

\* a run that calls _build_context once
InitContext ==
    /\ client = "context"
    /\ Start
    /\ utterances = 0

\* _build_context(query) of an orchestrator whose session has rag_enabled:
\* doc_results come from retrieve_pages (paged), or from retrieve when
\* retrieve_pages returned nothing
BuildContext(enabled, doc_results, paged, conv_chunks) ==
    LET page_results  == IF paged THEN doc_results ELSE <<>>
        chunk_results == IF paged THEN <<>> ELSE doc_results
        ctx == _build_context(enabled, page_results, chunk_results, conv_chunks)
    IN  /\ client = "context"
        /\ built.pc = "none"
        /\ built' = [built EXCEPT !.pc = "done", !.rag_enabled = enabled,
                                   !.page_results = page_results,
                                   !.chunk_results = chunk_results,
                                   !.conv_chunks = conv_chunks,
                                   !.context = ctx.context,
                                   !.sources = ctx.sources]
        /\ UNCHANGED <<sessions, nextSession, orchestrators, memory,
                       audio_buffer, cancel_event, pipeline_task, session,
                       events, handler, sent, pipes, executor, utterances,
                       client, calls, documents, generation, segmenter, registry,
          management, manager, detector>>

NextContext ==
    \E enabled \in BOOLEAN, doc_results \in SeqsUpTo(Passages, MaxPassages),
       paged \in BOOLEAN, conv_chunks \in {<<>>, <<MemoryHi>>} :
       BuildContext(enabled, doc_results, paged, conv_chunks)

SpecContext == InitContext /\ [][NextContext]_vars

(***************************************************************************)
(* RAGService: ingestion into the three collections and the retrieval of   *)
(* _build_context.  An entry is the stored text with its metadata; a       *)
(* collection is kept in the order of relevance to the query.              *)
(***************************************************************************)
\* RAG_TOP_K
RAG_TOP_K == 3

\* entries ingested into one collection by one kind of call
MaxStored == 2

PassageOther == [doc_id |-> "d4", filename |-> FileNotes, page_number |-> 1,
                 text |-> <<"z">>]

PassageOtherText == [doc_id |-> "d5", filename |-> FileMemo, page_number |-> -1,
                     text |-> <<"y">>]

MemoryBye == <<"U","s","e","r",":"," ","B","y","e">>

MemoryTrip == <<"U","s","e","r",":"," ","T","r","i","p">>

\* the pages, the plain texts and the exchanges of sessions 1 and 2
PageUploads == {<<1, PassageNotes3>>, <<1, PassageNotes4>>, <<2, PassageOther>>}

TextUploads == {<<1, PassageMemo>>, <<2, PassageOtherText>>}

Exchanges == {<<1, MemoryHi>>, <<2, MemoryBye>>, <<2, MemoryTrip>>}

\* the outcome of a query with a where filter: it returns; it raises and
\* the query without the filter returns; both raise
QueryOutcomes == {"ok", "fallback", "raised"}

NotBuilt == <<sessions, nextSession, orchestrators, memory, audio_buffer,
              cancel_event, pipeline_task, session, events, handler, sent,
              pipes, executor, utterances, client, calls, documents,
              generation, segmenter, registry, management, manager, detector>>

InitRetrieve ==
    /\ client = "retriever"
    /\ Start
    /\ utterances = 0

\* an entry of a collection: the document and metadatas["session_id"]
Entry(session_id, document) == [session_id |-> session_id, document |-> document]

Has(collection, document) ==
    \E k \in 1..Len(collection) : collection[k].document = document

\* ingest_pages with one page: the page goes to pages_collection and its
\* chunk to doc_collection, both with the session_id
IngestPages(session_id, page) ==
    /\ client = "retriever"
    /\ built.pc = "none"
    /\ Len(built.pages_collection) < MaxStored
    /\ ~Has(built.pages_collection, page)
    /\ built' = [built EXCEPT
                    !.pages_collection = Append(@, Entry(session_id, page)),
                    !.doc_collection = Append(@, Entry(session_id, page))]
    /\ UNCHANGED NotBuilt

\* ingest_text with a text of one chunk
IngestText(session_id, chunk) ==
    /\ client = "retriever"
    /\ built.pc = "none"
    /\ Len(built.doc_collection) < Len(built.pages_collection) + MaxStored
    /\ ~Has(built.doc_collection, chunk)
    /\ built' = [built EXCEPT
                    !.doc_collection = Append(@, Entry(session_id, chunk))]
    /\ UNCHANGED NotBuilt

\* store_conversation
StoreConversation(session_id, exchange) ==
    /\ client = "retriever"
    /\ built.pc = "none"
    /\ Len(built.conv_collection) < MaxStored
    /\ ~Has(built.conv_collection, exchange)
    /\ built' = [built EXCEPT
                    !.conv_collection = Append(@, Entry(session_id, exchange))]
    /\ UNCHANGED NotBuilt

Min(a, b) == IF a <= b THEN a ELSE b

\* collection.query(n_results, where): the n_results most relevant
\* documents among the entries the filter admits (0: no filter)
Query(collection, n_results, where) ==
    LET admitted == SelectSeq(collection,
                              LAMBDA e : where = 0 \/ e.session_id = where)
        results  == SubSeq(admitted, 1, Min(n_results, Len(admitted)))
    IN  [k \in 1..Len(results) |-> results[k].document]

\* the except branch of retrieve, retrieve_pages and
\* retrieve_conversations: the same query without where
QueryFallback(collection, n_results, session_id) ==
    Query(collection, n_results, 0)

\* the body the three retrieve methods share: nothing for an empty
\* collection, else the query with where = {"session_id": session_id}, and
\* the query without where when that raised
Retrieved(collection, k, session_id, outcome) ==
    IF Len(collection) = 0 THEN <<>>
    ELSE IF outcome = "ok"
         THEN Query(collection, Min(k, Len(collection)), session_id)
         ELSE QueryFallback(collection, Min(k, Len(collection)), session_id)

retrieve_pages(collection, session_id, outcome) ==
    Retrieved(collection, 3, session_id, outcome)

retrieve(collection, session_id, outcome) ==
    Retrieved(collection, RAG_TOP_K, session_id, outcome)

retrieve_conversations(collection, session_id, outcome) ==
    Retrieved(collection, 2, session_id, outcome)

\* a query was made and raised with and without the filter
Raises(collection, outcome) == Len(collection) > 0 /\ outcome = "raised"

\* _build_context(query) of the orchestrator of session_id, rag_enabled
RetrieveContext(session_id, pages, chunks, convs) ==
    LET page_results  == retrieve_pages(built.pages_collection, session_id, pages)
        chunk_results == IF page_results = <<>>
                         THEN retrieve(built.doc_collection, session_id, chunks)
                         ELSE <<>>
        conv_chunks   == retrieve_conversations(built.conv_collection,
                                                session_id, convs)
        ctx == _build_context(TRUE, page_results, chunk_results, conv_chunks)
    IN  /\ client = "retriever"
        /\ built.pc = "none"
        /\ IF \/ Raises(built.pages_collection, pages)
              \/ page_results = <<>> /\ Raises(built.doc_collection, chunks)
              \/ Raises(built.conv_collection, convs)
           THEN built' = [built EXCEPT !.pc = "raised", !.session_id = session_id]
           ELSE built' = [built EXCEPT !.pc = "done",
                                       !.session_id = session_id,
                                       !.page_results = page_results,
                                       !.chunk_results = chunk_results,
                                       !.conv_chunks = conv_chunks,
                                       !.context = ctx.context,
                                       !.sources = ctx.sources]
        /\ UNCHANGED NotBuilt

NextRetrieve ==
    \/ \E u \in PageUploads : IngestPages(u[1], u[2])
    \/ \E u \in TextUploads : IngestText(u[1], u[2])
    \/ \E x \in Exchanges : StoreConversation(x[1], x[2])
    \/ \E session_id \in SessionIds, pages \in QueryOutcomes,
          chunks \in QueryOutcomes, convs \in QueryOutcomes :
          RetrieveContext(session_id, pages, chunks, convs)

SpecRetrieve == InitRetrieve /\ [][NextRetrieve]_vars

(***************************************************************************)
(* LLMService.generate and generate_stream: the retry loop                 *)
(***************************************************************************)
MAX_RETRIES == 2

\* seconds
RETRY_DELAY == 1

_RETRYABLE_STATUS == {500, 502, 503}

\* httpx.HTTPStatusError with a status code (raise_for_status)
StatusError(code) == [kind |-> "status", code |-> code]

\* httpx.ConnectError, httpx.ReadError
ConnectError == [kind |-> "connect", code |-> 0]

ReadError == [kind |-> "read", code |-> 0]

\* a body that is not the JSON expected: response.json() or json.loads
\* raises, or data["message"]["content"] does
Malformed == [kind |-> "malformed", code |-> 0]

\* what an attempt can raise before a line of the body is read
Failures == {StatusError(500), StatusError(502), StatusError(503),
             StatusError(404), ConnectError, ReadError, Malformed}

\* what aiter_lines and json.loads can raise once the body is being read
StreamFailures == {ReadError, Malformed}

\* the except clauses: is the failure re-raised (or not caught at all)
ReraisedWhenExhausted(attempt, f) == attempt = MAX_RETRIES

Reraised(attempt, f) ==
    IF f.kind = "status"
    THEN f.code \notin _RETRYABLE_STATUS \/ attempt = MAX_RETRIES
    ELSE IF f.kind \in {"connect", "read"}
         THEN attempt = MAX_RETRIES
         ELSE TRUE

\* asyncio.sleep(RETRY_DELAY * (attempt + 1))
BackoffDelayConstant(attempt) == RETRY_DELAY

BackoffDelay(attempt) == RETRY_DELAY * (attempt + 1)

NotGeneration == <<sessions, nextSession, orchestrators, memory, audio_buffer,
                   cancel_event, pipeline_task, session, events, handler,
                   sent, pipes, executor, utterances, client, calls,
                   documents, built, segmenter, registry,
          management, manager, detector>>

\* a run that calls the language-model service once
InitLlm ==
    /\ client = "llm"
    /\ Start
    /\ utterances = 0

\* generate(...) or generate_stream(...) is called: attempt 0 sends the
\* request
Generate(mode) ==
    /\ client = "llm"
    /\ generation.pc = "none"
    /\ generation' = [generation EXCEPT !.pc = "request", !.mode = mode,
                                        !.requests = 1]
    /\ UNCHANGED NotGeneration

\* generate: the response arrived and parsed; return
GenerateReturn ==
    /\ generation.mode = "batch"
    /\ generation.pc = "request"
    /\ generation' = [generation EXCEPT !.pc = "returned"]
    /\ UNCHANGED NotGeneration

\* generate_stream: a line of the body carries content; yield it
StreamYield(fragment) ==
    /\ generation.mode = "stream"
    /\ generation.pc \in {"request", "streaming"}
    /\ Cardinality({k \in 1..Len(generation.yielded) :
                       generation.yielded[k].attempt = generation.attempt})
          < MaxTokens
    /\ generation' = [generation EXCEPT
                         !.pc = "streaming",
                         !.yielded = Append(@, [attempt |-> generation.attempt,
                                                text |-> fragment])]
    /\ UNCHANGED NotGeneration

\* generate_stream: the body is exhausted; return
StreamReturn ==
    /\ generation.mode = "stream"
    /\ generation.pc \in {"request", "streaming"}
    /\ generation' = [generation EXCEPT !.pc = "returned"]
    /\ UNCHANGED NotGeneration

\* the attempt raises f: re-raise, or log and sleep
AttemptFails(f) ==
    /\ \/ generation.pc = "request"
       \/ generation.pc = "streaming" /\ f \in StreamFailures
    /\ generation' =
          IF Reraised(generation.attempt, f)
          THEN [generation EXCEPT !.pc = "raised", !.raised = f,
                                  !.failures = Append(@, f)]
          ELSE [generation EXCEPT !.pc = "sleep",
                                  !.failures = Append(@, f),
                                  !.sleeps = Append(@, BackoffDelay(generation.attempt))]
    /\ UNCHANGED NotGeneration

\* the sleep is over: the next iteration of the loop sends the request again
Retry ==
    /\ generation.pc = "sleep"
    /\ generation' = [generation EXCEPT !.pc = "request", !.attempt = @ + 1,
                                        !.requests = @ + 1]
    /\ UNCHANGED NotGeneration

NextLlm ==
    \/ \E mode \in {"batch", "stream"} : Generate(mode)
    \/ GenerateReturn
    \/ \E fragment \in RestTokens : StreamYield(fragment)
    \/ StreamReturn
    \/ \E f \in Failures : AttemptFails(f)
    \/ Retry

SpecLlm == InitLlm /\ [][NextLlm]_vars

(***************************************************************************)
(* A SentenceBuffer on its own: add, add, ..., flush                       *)
(***************************************************************************)
FragmentDrSmith == <<"D","r","."," ","S","m","i","t","h"," ","a","r","r","i","v","e","d","."," ","H","e"," ","l","e","f","t",".">>

FragmentParagraph == <<"G","o",".","\n","\n","N","o","w"," ">>

\* s repeated n times
RECURSIVE Repeat(_, _)
Repeat(s, n) == IF n = 0 THEN <<>> ELSE s \o Repeat(s, n - 1)

\* a run-on of 256 characters without a sentence end: "ab, ab, ab, ..."
FragmentRunOn == Repeat(<<"a","b",","," ">>, 64)

\* 600 characters without a sentence end and with one clause boundary, the
\* comma at position 550
FragmentComma550 ==
    [k \in 1..600 |-> IF k = 550 THEN "," ELSE IF k = 551 THEN " " ELSE "x"]

\* 600 characters without a sentence end and with one clause boundary, the
\* comma at position 50
FragmentComma50 ==
    [k \in 1..600 |-> IF k = 50 THEN "," ELSE IF k = 51 THEN " " ELSE "x"]

\* an initial, an abbreviation and a number before the sentence ends
FragmentInitials == <<"Y","e","s","t","e","r","d","a","y"," ","w","e"," ","s","a","w"," ","a","g","e","n","t"," ","J","."," ","S","m","i","t","h"," ","w","i","t","h"," ","D","r","."," ","W","h","o"," ","a","t"," ","g","a","t","e"," ","3","."," ","T","h","e","n"," ","h","e"," ","l","e","f","t","."," ","B","y","e">>

\* the fragments a SentenceBuffer is fed
Fragments == {FragmentDrSmith, FragmentParagraph, FragmentRunOn, FragmentComma550,
              TokenA, FragmentInitials, FragmentComma50}

\* calls of add before the flush
MaxFragments == 3

NotSegmenter == <<sessions, nextSession, orchestrators, memory, audio_buffer,
                  cancel_event, pipeline_task, session, events, handler,
                  sent, pipes, executor, utterances, client, calls,
                  documents, built, generation, registry,
          management, manager, detector>>

\* a run that feeds one SentenceBuffer
InitSegmenter ==
    /\ client = "segmenter"
    /\ Start
    /\ utterances = 0

\* a run of SpecSegmenter ends with the flush; a run of SpecFlush goes on
\* with the same SentenceBuffer
InUse ==
    \/ client = "segmenter" /\ segmenter.pc # "flushed"
    \/ client = "flusher"

\* SentenceBuffer.add(token)
Add(token) ==
    /\ InUse
    /\ Len(segmenter.fed) < MaxFragments
    /\ LET r == SentenceBufferAdd(segmenter.buffer, token)
       IN  segmenter' = [segmenter EXCEPT
                            !.pc = "fed",
                            !.buffer = r.buffer,
                            !.fed = Append(@, token),
                            !.returned = @ \o r.sentences]
    /\ UNCHANGED NotSegmenter

FlushKeepsBuffer ==
    /\ InUse
    /\ segmenter' = [segmenter EXCEPT
                        !.pc = "flushed",
                        !.flushed = SentenceBufferFlush(segmenter.buffer)]
    /\ UNCHANGED NotSegmenter

\* SentenceBuffer.flush(): the rest, stripped (<<>> for None)
Flush ==
    /\ InUse
    /\ segmenter' = [segmenter EXCEPT
                        !.pc = "flushed",
                        !.buffer = <<>>,
                        !.flushed = SentenceBufferFlush(segmenter.buffer)]
    /\ UNCHANGED NotSegmenter

NextSegmenter ==
    \/ \E token \in Fragments : Add(token)
    \/ Flush

SpecSegmenter == InitSegmenter /\ [][NextSegmenter]_vars

\* a SentenceBuffer that is used on after a flush: add and flush in any order
InitFlush ==
    /\ client = "flusher"
    /\ Start
    /\ utterances = 0

SpecFlush == InitFlush /\ [][NextSegmenter]_vars

(***************************************************************************)
(* The orchestrator registry on its own: get_orchestrator and              *)
(* remove_orchestrator over the dict _orchestrators.  An object is named   *)
(* by the order of its construction, 0 is "no entry".                      *)
(***************************************************************************)
\* calls of get_orchestrator and remove_orchestrator in a run
MaxLookups == 4

NotRegistry == <<sessions, nextSession, orchestrators, memory, audio_buffer,
                 cancel_event, pipeline_task, session, events, handler,
                 sent, pipes, executor, utterances, client, calls,
                 documents, built, generation, segmenter, management, manager, detector>>

InitRegistry ==
    /\ client = "registry"
    /\ Start
    /\ utterances = 0

\* PipelineOrchestrator(session_id): a new object, distinct from all others
PipelineOrchestrator(reg) == reg.constructed + 1

StoredAfterGetAlwaysNew(reg, session_id) == PipelineOrchestrator(reg)

\* the object _orchestrators[session_id] names after get_orchestrator
StoredAfterGet(reg, session_id) ==
    IF reg._orchestrators[session_id] = 0
    THEN PipelineOrchestrator(reg)
    ELSE reg._orchestrators[session_id]

\* get_orchestrator(session_id)
GetOrchestrator(session_id) ==
    /\ client = "registry"
    /\ Len(registry.lookups) < MaxLookups
    /\ LET orch == StoredAfterGet(registry, session_id)
           new  == orch > registry.constructed
       IN  registry' = [registry EXCEPT
                           !._orchestrators[session_id] = orch,
                           !.constructed = IF new THEN orch ELSE @,
                           !.lookups = Append(@, [op |-> "get",
                                                  session_id |-> session_id,
                                                  returned |-> orch,
                                                  stored |-> registry._orchestrators[session_id]])]
    /\ UNCHANGED NotRegistry

\* remove_orchestrator(session_id): _orchestrators.pop(session_id, None)
RemoveOrchestrator(session_id) ==
    /\ client = "registry"
    /\ Len(registry.lookups) < MaxLookups
    /\ registry' = [registry EXCEPT
                       !._orchestrators[session_id] = 0,
                       !.lookups = Append(@, [op |-> "remove",
                                              session_id |-> session_id,
                                              returned |-> 0,
                                              stored |-> registry._orchestrators[session_id]])]
    /\ UNCHANGED NotRegistry

NextRegistry ==
    \/ \E sid \in SessionIds : GetOrchestrator(sid)
    \/ \E sid \in SessionIds : RemoveOrchestrator(sid)

SpecRegistry == InitRegistry /\ [][NextRegistry]_vars

\* One utterance on a connection while REST requests (a batch voice request,
\* then a text stream, and deletes) arrive for the same conversation.  Every behaviour of
\* this specification is a behaviour of the backend: it leaves out inputs
\* and steps the clients and the collaborators need not take.
InitMixed ==
    /\ client = "mixed"
    /\ Start
    /\ utterances = 1

NextMixed ==
    \/ WsBytes
    \/ WsEnd(1)
    \/ WsCancel
    \/ \E p \in Pipes : TaskStart(p)
    \/ \E p \in Pipes : Transcribe(p, TranscriptHi)
    \/ \E p \in Pipes : Retrieving(p)
    \/ \E p \in Pipes : PageNotFound(p)
    \/ \E p \in Pipes : StartStages(p)
    \/ \E p \in Pipes : ProducerToken(p, TokenA)
    \/ \E p \in Pipes : ProducerEnd(p)
    \/ \E p \in Pipes : ProducerFail(p)
    \/ \E p \in Pipes : ConsumerGet(p)
    \/ \E p \in Pipes : ConsumerAfterSpeaking(p)
    \/ \E p \in Pipes : ConsumerSynthReturn(p, TRUE)
    \/ \E p \in Pipes : ConsumerAfterEmit(p)
    \/ \E p \in Pipes : GatherDone(p)
    \/ \E p \in Pipes : GatherRaise(p)
    \/ \E p \in Pipes : SendAudioDone(p)
    \/ \E p \in Pipes : SendIdle(p)
    \/ \E p \in Pipes : ExecutorReturn(p)
    \/ VoiceNormal(1, 1, TranscriptHi)
    \/ VoiceGenerateReturn(1, ResponseOk, TRUE)
    \/ GenerateRaise(1)
    \/ TextStreamNormal(2, 1, TranscriptHi)
    \/ TextStreamToken(2, TokenB)
    \/ TextStreamEnd(2)
    \/ DeleteSession(1, TRUE)

SpecMixed == InitMixed /\ [][NextMixed]_vars

\* Two utterances on one connection, each answered through the normal path.
\* Every behaviour of this specification is a behaviour of the backend: it
\* leaves out steps (cancel, disconnect, direct page read, failures) that
\* the client or the collaborators need not take.
NextConcurrent ==
    \/ WsBytes
    \/ \E sid \in 0..MaxSessions : WsEnd(sid)
    \/ \E p \in Pipes : TaskStart(p)
    \/ \E p \in Pipes : Transcribe(p, TranscriptHi)
    \/ \E p \in Pipes : Retrieving(p)
    \/ \E p \in Pipes : PageNotFound(p)
    \/ \E p \in Pipes : StartStages(p)
    \/ \E p \in Pipes : ProducerToken(p, TokenA)
    \/ \E p \in Pipes : ProducerEnd(p)
    \/ \E p \in Pipes : ConsumerGet(p)
    \/ \E p \in Pipes : ConsumerAfterSpeaking(p)
    \/ \E p \in Pipes : ConsumerSynthReturn(p, TRUE)
    \/ \E p \in Pipes : ConsumerAfterEmit(p)
    \/ \E p \in Pipes : GatherDone(p)
    \/ \E p \in Pipes : SendAudioDone(p)
    \/ \E p \in Pipes : SendIdle(p)

SpecConcurrent == InitConcurrent /\ [][NextConcurrent]_vars


(***************************************************************************)
(* Properties of the streaming voice pipeline                              *)
(***************************************************************************)
IsChunk(m) == m.type = "audio_chunk"

IsSpeaking(m) == m.type = "status" /\ m.stage = "speaking"

\* the audio chunks pipeline p has delivered, in the order of delivery
Chunks(p) == SelectSeq(sent[p], IsChunk)

\* every step of the task of pipeline p
PipelineStep(p) ==
    \/ TaskStart(p)
    \/ \E t \in Transcripts : Transcribe(p, t)
    \/ Retrieving(p)
    \/ \E text \in PageTexts : PageFound(p, text)
    \/ PageNotFound(p)
    \/ DirectStart(p)
    \/ \E ok \in BOOLEAN : DirectSynthReturn(p, ok)
    \/ DirectAfterEmit(p)
    \/ \E ok \in BOOLEAN : FlushSynthReturn(p, ok)
    \/ FlushAfterEmit(p)
    \/ StartStages(p)
    \/ \E token \in TokenSet : ProducerToken(p, token)
    \/ ProducerEnd(p)
    \/ ProducerFail(p)
    \/ ConsumerGet(p)
    \/ ConsumerAfterSpeaking(p)
    \/ \E ok \in BOOLEAN : ConsumerSynthReturn(p, ok)
    \/ ConsumerAfterEmit(p)
    \/ GatherDone(p)
    \/ GatherRaise(p)
    \/ SendAudioDone(p)
    \/ SendIdle(p)

\* C1: on the two-stage path the chunks are delivered in the order their
\* sentences were enqueued: the chunk with index i carries the audio of the
\* i-th sentence the producer enqueued (counting from 0), indices grow
\* strictly from one chunk to the next, and when no synthesis failed they
\* are exactly 0, 1, 2, ...
C1_ChunksInEnqueueOrder ==
    \A p \in Pipes :
       ~pipes[p].direct =>
          LET chunks == Chunks(p)
          IN  /\ \A k \in 1..Len(chunks) :
                    /\ chunks[k].index + 1 \in 1..Len(pipes[p].enq)
                    /\ chunks[k].text = pipes[p].enq[chunks[k].index + 1]
              /\ \A j, k \in 1..Len(chunks) :
                    j < k => chunks[j].index < chunks[k].index
              /\ pipes[p].failed = 0 =>
                    \A k \in 1..Len(chunks) : chunks[k].index = k - 1

\* three sentences went through the queue and all three chunks were delivered
C1_Witness ==
    \E p \in Pipes :
       /\ ~pipes[p].direct
       /\ Len(pipes[p].enq) = 3
       /\ Len(Chunks(p)) = 3

\* C2: no audio chunk is delivered once the cancel flag of its invocation
\* is set
C2_NoChunkAfterCancel ==
    \A p \in Pipes :
       \A k \in 1..Len(sent[p]) : IsChunk(sent[p][k]) => ~sent[p][k].flag

\* C3: the exchange of an invocation whose cancel flag was set before its
\* history step is not committed to the conversation
C3_CancelledExchangeNotCommitted ==
    \A p \in Pipes : pipes[p].committed => ~pipes[p].flagAtCommit

\* C4: an invocation whose cancel flag is set has terminated or can still
\* take a step: it never waits for an item that will not come
C4_CancelledInvocationTerminates ==
    \A p \in Pipes :
       CancelSet(pipes[p]) => TaskDone(pipes[p]) \/ ENABLED PipelineStep(p)

\* C5: the chunk count an invocation reports is the number of sentences it
\* handed to synthesis, whether each synthesis succeeded or failed
C5_ChunkCountIsSentencesHanded ==
    \A p \in Pipes :
       pipes[p].tts_chunks # -1 => pipes[p].tts_chunks = pipes[p].handed

\* C6: an invocation sends the status "speaking" at most once, exactly once
\* if it hands any sentence to synthesis, and before its first audio chunk
C6_SpeakingOnceBeforeAudio ==
    \A p \in Pipes :
       LET log      == sent[p]
           speaking == {k \in 1..Len(log) : IsSpeaking(log[k])}
       IN  /\ Cardinality(speaking) <= 1
           /\ pipes[p].handed > 0 => Cardinality(speaking) = 1
           /\ \A k \in 1..Len(log) :
                 IsChunk(log[k]) => \E j \in speaking : j < k

\* the first synthesis failed, and a later sentence became the first chunk
C6_Witness ==
    \E p \in Pipes :
       /\ ~pipes[p].direct
       /\ pipes[p].failed >= 1
       /\ pipes[p].handed >= 2
       /\ Len(Chunks(p)) >= 1
       /\ Chunks(p)[1].index >= 1

\* C7: at most one synthesis is in progress for a conversation at a time
C7_OneSynthesisPerConversation ==
    \A sid \in SessionIds :
       Cardinality({p \in executor : pipes[p].sid = sid}) <= 1

\* neither stage of the invocation is running
StagesStopped(rec) ==
    /\ rec.prod \in {"none", "done", "failed", "cancelled"}
    /\ rec.cons \in {"none", "done", "cancelled"}

\* C8: during streaming voice invocations the state of an existing
\* conversation changes only in the history step of an invocation on it, and
\* that step is taken only when neither the producer nor the consumer of the
\* invocation is running
C8_HistoryOnlyInTerminalStep ==
    [][client = "websocket" =>
         \A sid \in SessionIds :
            (sessions[sid].exists /\ sessions'[sid] # sessions[sid]) =>
               \E p \in Pipes :
                  /\ pipes[p].sid = sid
                  /\ ~pipes[p].committed
                  /\ pipes'[p].committed
                  /\ StagesStopped(pipes[p])
                  /\ StagesStopped(pipes'[p])]_vars

\* a two-stage invocation with sentences in its queue reached its history step
C8_Witness ==
    \E p \in Pipes :
       /\ ~pipes[p].direct
       /\ pipes[p].committed
       /\ Len(pipes[p].enq) >= 2
       /\ Len(pipes[p].turns) = 2


(***************************************************************************)
(* Properties of the history step, in every pipeline variant               *)
(***************************************************************************)
\* the two turns of one exchange
Exchange(user, assistant) ==
    <<[role |-> "user", content |-> user],
      [role |-> "assistant", content |-> assistant]>>

\* the exchange is in the history, the assistant turn right after the user turn
ExchangeIn(history, user, assistant) ==
    \E k \in 1..(Len(history) - 1) :
       <<history[k], history[k + 1]>> = Exchange(user, assistant)

\* the statement of C9 as the specification has it: every batch invocation
\* that returns a result has appended one user turn, then one assistant
\* turn, whatever the input
C9_BatchAlwaysAppendsPair ==
    \A i \in Calls :
       (calls[i].kind \in {"voice", "text"} /\ calls[i].pc = "returned") =>
          calls[i].turns = Exchange(calls[i].message, calls[i].response)

\* C9: every process_text invocation, and every process_voice invocation
\* whose transcript is not blank, that returns a result has appended one
\* user turn and then one assistant turn to its conversation if the
\* conversation still exists (nothing if it was deleted meanwhile); a
\* process_voice invocation whose transcript is blank returns the empty
\* result and appends nothing
C9_BatchAppendsPairUnlessBlank ==
    \A i \in Calls :
       (calls[i].kind \in {"voice", "text"} /\ calls[i].pc = "returned") =>
          IF calls[i].kind = "voice" /\ Strip(calls[i].message) = <<>>
          THEN calls[i].turns = <<>> /\ calls[i].result = "empty"
          ELSE IF sessions[calls[i].sid].exists
          THEN /\ calls[i].turns = Exchange(calls[i].message, calls[i].response)
               /\ ExchangeIn(sessions[calls[i].sid].history,
                             calls[i].message, calls[i].response)
          ELSE calls[i].turns \in {<<>>, Exchange(calls[i].message, calls[i].response)}

\* a voice request with a blank transcript returned the empty result, and a
\* voice request that went through generation returned with its pair appended
C9_Witness ==
    \E i, j \in Calls :
       /\ calls[i].kind = "voice"
       /\ calls[i].result = "empty"
       /\ calls[j].kind = "voice"
       /\ calls[j].llm
       /\ calls[j].pc = "returned"
       /\ Len(calls[j].turns) = 2

\* C10: when store_conversation raises, in any pipeline variant, the
\* invocation still returns its normal result and the exchange it appended
\* stays in the conversation history
C10_StoreFailureSwallowed ==
    /\ \A p \in Pipes :
          pipes[p].storeRaised =>
             /\ pipes[p].pc \in {"sent_response", "sent_audio_done", "done", "cancelled"}
             /\ pipes[p].turns = Exchange(pipes[p].transcript, pipes[p].full_response)
             /\ ExchangeIn(sessions[pipes[p].sid].history,
                           pipes[p].transcript, pipes[p].full_response)
    /\ \A i \in Calls :
          calls[i].storeRaised =>
             /\ calls[i].pc = "returned"
             /\ calls[i].result = "ok"
             /\ sessions[calls[i].sid].exists =>
                   /\ calls[i].turns = Exchange(calls[i].message, calls[i].response)
                   /\ ExchangeIn(sessions[calls[i].sid].history,
                                 calls[i].message, calls[i].response)

\* the store raised in a batch voice invocation and in a streamed chat, both
\* returned, and their exchanges are in the history
C10_Witness ==
    \E i, j \in Calls :
       /\ calls[i].kind = "voice"
       /\ calls[j].kind = "text_stream"
       /\ calls[i].storeRaised /\ calls[j].storeRaised
       /\ calls[i].pc = "returned" /\ calls[j].pc = "returned"
       /\ Len(calls[i].turns) = 2 /\ Len(calls[j].turns) = 2

(***************************************************************************)
(* The direct page read                                                    *)
(***************************************************************************)
\* the documents of the store that belong to session sid and have a page n
Holders(sid, n) ==
    {k \in 1..Len(documents) : /\ documents[k].sid = sid
                               /\ n \in DOMAIN documents[k].pages}

\* the invocation's query is a page request whose page is found
FetchedFor(c, req) ==
    /\ req.found
    /\ _fetch_page(documents, c.sid, req.page_num, req.hint).found

PageRequestFound(c) ==
    /\ c.kind \in {"text", "voice"}
    /\ FetchedFor(c, _detect_page_request(c.message))

\* the page number the invocation's query asks for
RequestedPage(c) == _detect_page_request(c.message).page_num

\* the invocation answered with page n of one of its conversation's
\* documents, without the language model
BypassAnswer(c, n) ==
    /\ ~c.llm
    /\ c.pc # "generating"
    /\ c.llm_ms = 0
    /\ Len(c.sources) = 1
    /\ c.sources[1].page_number = Page(n)
    /\ \E k \in Holders(c.sid, n) :
          /\ c.response = documents[k].pages[n]
          /\ c.sources[1].doc_id = documents[k].doc_id
          /\ c.sources[1].filename = documents[k].filename

\* C11: when the query of an invocation is a page request and the page is
\* found, the language model is not called for it, the response is the
\* text of a stored page of that number of one of the conversation's
\* documents, character for character and without the label, the recorded
\* generation time is zero, and there is exactly one citation, which
\* names that document and the requested page.
C11_DirectReadBypassesModel ==
    \A i \in Calls :
        PageRequestFound(calls[i]) => BypassAnswer(calls[i], RequestedPage(calls[i]))

\* "read page 1" over one ingested document whose page 1 is "Hello world":
\* the invocation returned "Hello world"
C11_Witness ==
    /\ documents = <<DocNotes>>
    /\ \E i \in Calls :
          /\ calls[i].pc = "returned"
          /\ calls[i].message = QueryPage1
          /\ calls[i].response = PageShort
          /\ calls[i].llm_ms = 0
          /\ Len(calls[i].sources) = 1

\* C12: a bypass miss is not an error.  When the query of an invocation is
\* not a page request, or no target document resolves, or the requested
\* page does not exist, the invocation goes on to _build_context and calls
\* the language model; it raises only if generation or synthesis does, and
\* when it returns, its response is the generated answer.
C12_MissFallsThroughToGeneration ==
    \A i \in Calls :
        (calls[i].kind \in {"text", "voice"} /\ ~PageRequestFound(calls[i])) =>
            /\ calls[i].llm
            /\ calls[i].pc \in {"generating", "returned", "raised"}
            /\ calls[i].llm_ms # 0
            /\ calls[i].pc = "returned" =>
                  /\ calls[i].result = "ok"
                  /\ calls[i].response \in Responses

\* "read page 1" when the conversation's first document with pages has no
\* page 1: the invocation returned the generated answer
C12_Witness ==
    /\ documents = <<DocBook, DocNotes>>
    /\ \E i \in Calls :
          /\ calls[i].message = QueryPage1
          /\ calls[i].sid = 1
          /\ calls[i].pc = "returned"
          /\ calls[i].response = ResponseOk

\* the stored documents of session sid, as indices of the store
Scoped(sid) == {k \in 1..Len(documents) : documents[k].sid = sid}

\* the target the resolution rule names for session sid and a hint
\* (<<>> = no hint): an index of the store, 0 = no target
RuleTarget(sid, hint) ==
    LET byHint == {k \in Scoped(sid) :
                      Contains(Lower(documents[k].filename), Lower(hint))}
        paged  == {k \in Scoped(sid) : DOMAIN documents[k].pages # {}}
        firstPaged == IF paged = {} THEN 0 ELSE SetMin(paged)
    IN  IF Scoped(sid) = {} THEN 0
        ELSE IF hint # <<>>
             THEN IF byHint # {} THEN SetMin(byHint) ELSE firstPaged
             ELSE IF Cardinality(Scoped(sid)) = 1 THEN SetMin(Scoped(sid))
                  ELSE firstPaged

\* the invocation read page n from the document of index target, or, when
\* there is no such document or page, called the language model
ReadFrom(c, target, n) ==
    IF target # 0 /\ n \in DOMAIN documents[target].pages
    THEN /\ ~c.llm
         /\ c.response = documents[target].pages[n]
         /\ Len(c.sources) = 1
         /\ c.sources[1].doc_id = documents[target].doc_id
    ELSE c.llm

\* for a page request req, the invocation used the target the rule names
ResolvedAsRuled(c, req) ==
    req.found => ReadFrom(c, RuleTarget(c.sid, req.hint), req.page_num)

\* C13: target-document resolution of a page request.  With a hint the
\* target is the first document of the conversation whose filename contains
\* the hint, letter case ignored, else the first with at least one page;
\* without a hint it is the conversation's sole document when there is
\* exactly one, else the first with at least one page; a conversation
\* without documents has no target.  The invocation reads the page from
\* that document and cites it, and calls the language model exactly when
\* there is no target or the target has no such page.
C13_TargetResolution ==
    \A i \in Calls :
        calls[i].kind \in {"text", "voice"} =>
            ResolvedAsRuled(calls[i], _detect_page_request(calls[i].message))

\* "read page 1 from notes" when the conversation holds book.pdf and then
\* Notes.pdf: the hint selects Notes.pdf, the second document
C13_Witness ==
    /\ documents = <<DocBook, DocNotes>>
    /\ \E i \in Calls :
          /\ calls[i].message = QueryPage1Notes
          /\ calls[i].sid = 1
          /\ calls[i].pc = "returned"
          /\ calls[i].response = PageShort
          /\ calls[i].sources[1].doc_id = DocNotes.doc_id

(***************************************************************************)
(* _build_context                                                          *)
(***************************************************************************)
\* the passages _build_context went over
DocResults ==
    IF built.page_results # <<>> THEN built.page_results ELSE built.chunk_results

\* what a passage is cited as: its document id and its page, a passage
\* without a page (page_number -1) having the absent page
PassageKey(chunk) ==
    <<chunk.doc_id,
      IF chunk.page_number >= 0 THEN Page(chunk.page_number) ELSE NonePage>>

\* the passages that are the first of their (document id, page)
FirstOccurrences ==
    {j \in 1..Len(DocResults) :
        \A h \in 1..(j - 1) : PassageKey(DocResults[h]) # PassageKey(DocResults[j])}

\* C14: the citation list of _build_context holds no two citations with
\* the same (document id, page number); each distinct (document id, page)
\* of the retrieved passages contributes exactly one citation, in the order
\* of first occurrence, a passage without a page counting as (document id,
\* absent page).
C14_CitationsDeduplicated ==
    (built.pc = "done" /\ built.rag_enabled) =>
        /\ \A a, b \in 1..Len(built.sources) :
              a # b => <<built.sources[a].doc_id, built.sources[a].page_number>>
                       # <<built.sources[b].doc_id, built.sources[b].page_number>>
        /\ Len(built.sources) = Cardinality(FirstOccurrences)
        /\ \A j \in FirstOccurrences :
              LET a == Cardinality({h \in FirstOccurrences : h <= j})
              IN  /\ <<built.sources[a].doc_id, built.sources[a].page_number>>
                     = PassageKey(DocResults[j])
                  /\ built.sources[a].filename = DocResults[j].filename

\* two passages both of document d1, page 3, contribute one citation
C14_Witness ==
    /\ built.pc = "done"
    /\ built.rag_enabled
    /\ built.chunk_results = <<PassageNotes3, PassageNotes3b>>
    /\ Len(built.sources) = 1

(***************************************************************************)
(* Retrieval disabled                                                      *)
(***************************************************************************)
\* C15: when retrieval is disabled for a conversation, every query
\* processed for it goes to generation with an empty context, and the
\* result carries no sources.
C15_DisabledRetrievalGeneratesWithoutSources ==
    \A i \in Calls :
        (calls[i].kind \in {"text", "voice"} /\ ~calls[i].rag) =>
            /\ calls[i].llm
            /\ calls[i].context = <<>>
            /\ calls[i].sources = <<>>

\* the same, for the queries that the direct page read does not answer
C15_HoldsUnlessPageIsRead ==
    \A i \in Calls :
        (calls[i].kind \in {"text", "voice"} /\ ~calls[i].rag
         /\ ~PageRequestFound(calls[i])) =>
            /\ calls[i].llm
            /\ calls[i].context = <<>>
            /\ calls[i].sources = <<>>

(***************************************************************************)
(* The retry policy of the language-model service                          *)
(***************************************************************************)
\* a retryable status, or a connection or read error
Transient(f) ==
    \/ f.kind = "status" /\ f.code \in {500, 502, 503}
    \/ f.kind \in {"connect", "read"}

\* a non-retryable status, or a malformed response
Permanent(f) ==
    \/ f.kind = "status" /\ f.code \notin {500, 502, 503}
    \/ f.kind = "malformed"

\* C16: batch generation makes at most MAX_RETRIES + 1 = 3 attempts; it
\* sends the request again only after an attempt failed with a retryable
\* status (500, 502, 503) or a connection or read error; it sleeps once
\* before each retry, each time strictly longer than the time before; and
\* when the last attempt fails, the call raises that failure.
C16_BatchRetriesBounded ==
    generation.mode = "batch" =>
        LET g == generation
        IN  /\ MAX_RETRIES + 1 = 3
            /\ g.requests <= MAX_RETRIES + 1
            /\ \A k \in 1..Len(g.failures) : k < g.requests => Transient(g.failures[k])
            /\ Len(g.sleeps) = IF g.pc = "sleep" THEN g.requests ELSE g.requests - 1
            /\ \A a, b \in 1..Len(g.sleeps) : a < b => g.sleeps[a] < g.sleeps[b]
            /\ (g.requests = MAX_RETRIES + 1 /\ Len(g.failures) = g.requests) =>
                  /\ g.pc = "raised"
                  /\ g.raised = g.failures[Len(g.failures)]

\* three attempts failed with 503: two sleeps, of 1 and 2 seconds, and the
\* call raised the last failure
C16_Witness ==
    /\ generation.mode = "batch"
    /\ generation.pc = "raised"
    /\ generation.requests = 3
    /\ generation.sleeps = <<1, 2>>
    /\ generation.raised = StatusError(503)

C18_StreamNeverResentAfterFragment ==
    (generation.mode = "stream" /\ generation.yielded # <<>>) =>
        /\ generation.pc # "sleep"
        /\ generation.requests = generation.yielded[1].attempt + 1
        /\ \A a, b \in 1..Len(generation.yielded) :
              generation.yielded[a].attempt = generation.yielded[b].attempt

(***************************************************************************)
(* SentenceBuffer                                                          *)
(***************************************************************************)
NotWhitespace(c) == c \notin Whitespace

\* s without its whitespace characters
WithoutWhitespace(s) == SelectSeq(s, NotWhitespace)

\* C19: SentenceBuffer conserves text.  For any sequence of fragments
\* passed to add and followed by one flush, the sentences returned, in
\* order, followed by the flush result, are, once whitespace is removed,
\* the fragments concatenated, once whitespace is removed: no other
\* character is lost, duplicated or reordered.
C19_TextConserved ==
    segmenter.pc = "flushed" =>
        WithoutWhitespace(Join(segmenter.returned, <<>>) \o segmenter.flushed)
        = WithoutWhitespace(Join(segmenter.fed, <<>>))

\* two run-on fragments overflowed the buffer: one sentence was split off
\* by force, the rest came with the flush
C19_Witness ==
    /\ segmenter.pc = "flushed"
    /\ segmenter.fed = <<FragmentRunOn, FragmentRunOn>>
    /\ Len(segmenter.returned) = 1
    /\ segmenter.flushed # <<>>

\* C20 as stated: the text "Dr. Smith arrived. He left." fed as a single
\* fragment (and flushed) yields the sentences "Dr. Smith arrived." and
\* "He left.".
C20_DrSmithTwoSentences ==
    (segmenter.pc = "flushed" /\ segmenter.fed = <<FragmentDrSmith>>) =>
        Append(segmenter.returned, segmenter.flushed)
        = <<SubSeq(FragmentDrSmith, 1, 18), SubSeq(FragmentDrSmith, 20, 27)>>

\* C20, amended: the text "Dr. Smith arrived. He left." fed as a single
\* fragment is not split after the abbreviation "Dr.", nor after
\* "arrived.", a candidate of 18 characters, shorter than
\* MIN_SENTENCE_LENGTH: add returns no sentence and flush returns the
\* whole text as one sentence.
C20_DrSmithOneSentence ==
    segmenter.fed = <<FragmentDrSmith>> =>
        /\ segmenter.returned = <<>>
        /\ segmenter.pc = "fed" => segmenter.buffer = FragmentDrSmith
        /\ segmenter.pc = "flushed" => segmenter.flushed = FragmentDrSmith

\* the text was fed and flushed
C20_Witness ==
    /\ segmenter.pc = "flushed"
    /\ segmenter.fed = <<FragmentDrSmith>>
    /\ segmenter.flushed = FragmentDrSmith

\* the text add works on: the buffer before the call and the new fragment
Pending == segmenter.buffer \o segmenter'.fed[Len(segmenter'.fed)]

\* the positions of s where a comma, semicolon or colon is followed by
\* whitespace and then a letter
ClauseBoundaries(s) ==
    {k \in 1..Len(s) :
        /\ s[k] \in ClausePunct
        /\ \E e \in (k + 2)..Len(s) :
              /\ \A j \in (k + 1)..(e - 1) : s[j] \in Whitespace
              /\ s[e] \in UpperLetters \cup LowerLetters}

\* s has a paragraph break or a place where ".", "!" or "?" is followed by
\* whitespace and then an upper-case letter or a quote
HasSentenceBoundary(s) ==
    \/ \E k \in 1..(Len(s) - 1) : s[k] = "\n" /\ s[k + 1] = "\n"
    \/ \E k \in 1..Len(s) :
          /\ s[k] \in SentencePunct
          /\ \E e \in (k + 2)..Len(s) :
                /\ \A j \in (k + 1)..(e - 1) : s[j] \in Whitespace
                /\ s[e] \in SentenceOpeners

\* add split s by force at position k: it returned one sentence, the text up
\* to and including s[k], and kept the text after s[k], without the
\* whitespace that follows the mark
SplitAt(s, k) ==
    /\ Len(segmenter'.returned) = Len(segmenter.returned) + 1
    /\ LET sentence == segmenter'.returned[Len(segmenter'.returned)]
       IN  /\ sentence = Strip(SubSeq(s, 1, k))
           /\ sentence[Len(sentence)] = s[k]
    /\ \E e \in (k + 2)..Len(s) :
          /\ \A j \in (k + 1)..(e - 1) : s[j] \in Whitespace
          /\ s[e] \notin Whitespace
          /\ segmenter'.buffer = SubSeq(s, e, Len(s))

\* the case of C21: the pending text has no sentence boundary, exceeds
\* MAX_BUFFER_LENGTH and has a clause boundary
OverflowCase(s) ==
    /\ ~HasSentenceBoundary(s)
    /\ Len(s) > MAX_BUFFER_LENGTH
    /\ ClauseBoundaries(s) # {}

\* C21: forced overflow split.  When the pending buffer has no
\* sentence-ending boundary, is longer than MAX_BUFFER_LENGTH and contains a
\* clause boundary (comma, semicolon or colon followed by whitespace and a
\* letter), add emits a sentence that ends exactly at the last such
\* punctuation mark and the buffer keeps only the text after it.
C21_ForcedSplitAtLastClauseBoundary ==
    [][(Len(segmenter'.fed) = Len(segmenter.fed) + 1 /\ OverflowCase(Pending))
          => SplitAt(Pending, SetMax(ClauseBoundaries(Pending)))]_vars

\* the 600 characters with a comma at position 550 were fed to an empty
\* buffer: the 550 characters up to the comma came back as a sentence and
\* the 49 after the blank stay in the buffer
C21_Witness ==
    /\ segmenter.pc = "fed"
    /\ segmenter.fed = <<FragmentComma550>>
    /\ segmenter.returned = <<SubSeq(FragmentComma550, 1, 550)>>
    /\ segmenter.buffer = SubSeq(FragmentComma550, 552, 600)

(***************************************************************************)
(* The orchestrator registry                                               *)
(***************************************************************************)
\* lookups i < j are calls of get_orchestrator for one id with no
\* remove_orchestrator of that id between them
GetsWithoutRemove(i, j) ==
    LET l == registry.lookups
    IN  /\ i < j
        /\ l[i].op = "get" /\ l[j].op = "get"
        /\ l[i].session_id = l[j].session_id
        /\ \A k \in (i + 1)..(j - 1) :
              ~(l[k].op = "remove" /\ l[k].session_id = l[i].session_id)

\* lookup j returned an object that no earlier call returned
ReturnedNew(j) ==
    \A i \in 1..(j - 1) : registry.lookups[i].returned # registry.lookups[j].returned

\* C22: get_orchestrator holds at most one orchestrator per conversation
\* id: consecutive calls with the same id, with no remove in between,
\* return the same instance, and a call for an id constructs a new instance
\* only when none is stored for it.
C22_OneOrchestratorPerId ==
    LET l == registry.lookups
    IN  /\ \A i, j \in 1..Len(l) :
              GetsWithoutRemove(i, j) => l[i].returned = l[j].returned
        /\ \A j \in 1..Len(l) :
              (l[j].op = "get" /\ ReturnedNew(j)) =>
                  /\ l[j].stored = 0
                  /\ \A i \in 1..(j - 1) : ~GetsWithoutRemove(i, j)
        /\ \A a, b \in SessionIds :
              (a # b /\ registry._orchestrators[a] # 0) =>
                  registry._orchestrators[a] # registry._orchestrators[b]

\* an id was looked up twice, removed, and looked up again: the first two
\* calls returned one object, the last a new one
C22_Witness ==
    LET l == registry.lookups
    IN  /\ Len(l) = 4
        /\ l[1].op = "get" /\ l[2].op = "get" /\ l[3].op = "remove" /\ l[4].op = "get"
        /\ \A k \in 1..4 : l[k].session_id = 1
        /\ l[1].returned = l[2].returned
        /\ l[4].returned # l[1].returned

\* the last session request answered in the next state, when this step
\* answered one
Answered == management'[Len(management')]

\* C23: an orchestrator is removed from the registry exactly when its
\* conversation is deleted.  After any sequence of create, chat, voice and
\* delete requests the registry holds an orchestrator for an id only if a
\* session with that id exists; an orchestrator leaves the registry only in
\* the step that deletes its session; and a failed delete of an unknown id
\* removes nothing.
C23_OrchestratorRemovedWithSession ==
    /\ [](\A sid \in orchestrators : sessions[sid].exists)
    /\ [][/\ \A sid \in orchestrators \ orchestrators' :
               /\ management' # management
               /\ Answered = [op |-> "delete", session_id |-> sid, status |-> 200]
               /\ sessions[sid].exists /\ ~sessions'[sid].exists
          /\ (management' # management /\ Answered.op = "delete"
                 /\ Answered.status = 200)
               => Answered.session_id \notin orchestrators'
          /\ (management' # management /\ Answered.op = "delete"
                 /\ Answered.status = 404)
               => /\ ~sessions[Answered.session_id].exists
                  /\ UNCHANGED <<sessions, orchestrators, memory>>]_vars

\* a chat made session 1 and its orchestrator, a delete of the unknown id 2
\* was refused, then the delete of session 1 removed both
C23_Witness ==
    /\ management = <<[op |-> "delete", session_id |-> 2, status |-> 404],
                      [op |-> "delete", session_id |-> 1, status |-> 200]>>
    /\ calls[1].kind = "text" /\ calls[1].sid = 1
    /\ orchestrators = {}
    /\ ~sessions[1].exists

(***************************************************************************)
(* The timestamps of a session record                                      *)
(***************************************************************************)
\* the record of sid exists before and after the step
Kept(sid) == manager._sessions[sid].exists /\ manager'._sessions[sid].exists

\* updated_at of every record is at or after its created_at
StampedAfterCreation ==
    \A sid \in SessionIds :
        manager._sessions[sid].exists =>
            manager._sessions[sid].updated_at >= manager._sessions[sid].created_at

\* C24: every mutation of a conversation record (title update, history
\* append, change of the retrieval-enabled flag) changes its updated_at
\* timestamp, and updated_at never decreases and is never earlier than
\* created_at.
C24_EveryMutationStamps ==
    /\ []StampedAfterCreation
    /\ [][\A sid \in SessionIds :
             Kept(sid) =>
                /\ manager'._sessions[sid].updated_at >= manager._sessions[sid].updated_at
                /\ (\/ manager'._sessions[sid].title # manager._sessions[sid].title
                    \/ manager'._sessions[sid].history # manager._sessions[sid].history
                    \/ manager'._sessions[sid].rag_enabled
                          # manager._sessions[sid].rag_enabled)
                      => manager'._sessions[sid].updated_at
                           # manager._sessions[sid].updated_at]_vars

\* what the code does keep: updated_at never decreases, is never earlier
\* than created_at, and changes with every change of the title or the
\* history
C24_HoldsExceptForFlag ==
    /\ []StampedAfterCreation
    /\ [][\A sid \in SessionIds :
             Kept(sid) =>
                /\ manager'._sessions[sid].updated_at >= manager._sessions[sid].updated_at
                /\ (\/ manager'._sessions[sid].title # manager._sessions[sid].title
                    \/ manager'._sessions[sid].history # manager._sessions[sid].history)
                      => manager'._sessions[sid].updated_at
                           > manager._sessions[sid].updated_at]_vars

(***************************************************************************)
(* process_text_stream                                                     *)
(***************************************************************************)
\* the invocation tried to store its exchange: the store raised, or the
\* exchange is in the memory, or the memory of the conversation was deleted
\* with the conversation afterwards
StoreAttempted(c, assistant) ==
    \/ c.storeRaised
    \/ store_conversation({}, c.sid, c.message, assistant) \subseteq memory
    \/ ~sessions[c.sid].exists

\* C25 as stated: the text-streaming variant yields exactly the generation
\* fragments, unchanged and in order, and when the stream completes it
\* appends one user turn and one assistant turn whose content is the
\* concatenation of all yielded fragments, then attempts to store the
\* exchange in memory.
C25_StreamYieldsFragmentsAndAppendsPair ==
    \A i \in Calls :
       calls[i].kind = "text_stream" =>
          /\ calls[i].yielded = calls[i].generated
          /\ calls[i].pc = "returned" =>
                /\ calls[i].turns
                     = Exchange(calls[i].message, Join(calls[i].yielded, <<>>))
                /\ StoreAttempted(calls[i], Join(calls[i].yielded, <<>>))

\* C25, amended: when generation is used the text-streaming variant yields
\* exactly the generation fragments, unchanged and in order; when the page
\* is read directly it yields the page text as one item and generates
\* nothing.  When the stream completes it appends one user turn and one
\* assistant turn whose content is the concatenation of all yielded items
\* if the conversation still exists (nothing if it was deleted meanwhile),
\* then attempts to store the exchange in memory.
C25_StreamPassesThroughAndCommits ==
    \A i \in Calls :
       calls[i].kind = "text_stream" =>
          /\ IF calls[i].llm
             THEN calls[i].yielded = calls[i].generated
             ELSE calls[i].generated = <<>> /\ Len(calls[i].yielded) = 1
          /\ calls[i].pc = "returned" =>
                LET said == Join(calls[i].yielded, <<>>)
                IN  /\ IF sessions[calls[i].sid].exists
                       THEN /\ calls[i].turns = Exchange(calls[i].message, said)
                            /\ ExchangeIn(sessions[calls[i].sid].history,
                                          calls[i].message, said)
                       ELSE calls[i].turns \in {<<>>, Exchange(calls[i].message, said)}
                    /\ StoreAttempted(calls[i], said)

\* a streamed chat yielded two fragments, completed and appended its pair;
\* another yielded a page read directly
C25_Witness ==
    \E i, j \in Calls :
       /\ calls[i].kind = "text_stream" /\ calls[i].llm
       /\ Len(calls[i].yielded) = 2
       /\ calls[i].pc = "returned"
       /\ Len(calls[i].turns) = 2
       /\ calls[j].kind = "text_stream" /\ ~calls[j].llm
       /\ calls[j].pc = "returned"

(***************************************************************************)
(* A streaming voice invocation that fails                                 *)
(***************************************************************************)
IsError(m) == m.type = "error"

IsIdle(m) == m.type = "status" /\ m.stage = "idle"

\* the positions of the log of pipeline p that hold such a message
Positions(p, Is(_)) == {k \in 1..Len(sent[p]) : Is(sent[p][k])}

\* C26: when a streaming voice pipeline fails with an exception, the caller
\* receives an explicit error event and a final idle status is still sent
\* for that invocation.
C26_FailureSendsErrorAndIdle ==
    \A p \in Pipes :
       pipes[p].pc = "error" =>
          /\ Positions(p, IsError) # {}
          /\ Positions(p, IsIdle) # {}

\* what the code does keep: a failed invocation has sent one error event,
\* the last message of run_pipeline, and no idle status
C26_FailureSendsErrorOnly ==
    \A p \in Pipes :
       /\ pipes[p].pc = "error" =>
             /\ Cardinality(Positions(p, IsError)) = 1
             /\ Positions(p, IsIdle) = {}
       /\ Positions(p, IsError) # {} => pipes[p].pc = "error"

(***************************************************************************)
(* Page-request detection                                                  *)
(***************************************************************************)
QueryReadPage5Manual == <<"r","e","a","d"," ","p","a","g","e"," ","5"," ","o","f"," ","t","h","e"," ","m","a","n","u","a","l">>

QueryWhatIsOnPage2 == <<"w","h","a","t"," ","i","s"," ","o","n"," ","p","a","g","e"," ","2">>

\* the detection result (page_num, hint); an empty hint is "no hint"
Detected(page_num, hint) == [found |-> TRUE, page_num |-> page_num, hint |-> hint]

\* C27: page-request detection.  "read page 5 of the manual" yields
\* (5, "the manual"), "what is on page 2" yields (2, no hint), and a query
\* that names no page such as "tell me about the budget report" yields no
\* match; whichever of the three phrasings matches, a trailing
\* "of/from/in <hint>" clause supplies the hint.
C27_DetectionExamplesAndHint ==
    \A k \in 1..Len(detector) :
       LET d == detector[k]
       IN  /\ d.query = QueryReadPage5Manual
                => d.result = Detected(5, <<"t","h","e"," ","m","a","n","u","a","l">>)
           /\ d.query = QueryWhatIsOnPage2 => d.result = Detected(2, <<>>)
           /\ d.query \in PlainQueries => ~d.result.found
           /\ \A ph \in Phrasings : \A n \in PageNumbers : \A tr \in Trailers :
                 d.query = Phrase(ph, n, tr)
                    => d.result = Detected(n.value, tr.hint)

\* a request of the third phrasing (the page first, the verb later) with a
\* trailing "from" clause was detected with its hint
C27_Witness ==
    \E k \in 1..Len(detector) :
       /\ \E ph \in Phrasings : \E n \in PageNumbers : \E tr \in Trailers :
             /\ ph.branch = 3
             /\ tr.hint = <<"N","o","t","e","s",".","p","d","f">>
             /\ detector[k].query = Phrase(ph, n, tr)
       /\ detector[k].result.found
       /\ detector[k].result.hint = <<"N","o","t","e","s",".","p","d","f">>

(***************************************************************************)
(* The two stages when the token stream ends                               *)
(***************************************************************************)
\* the steps of the consumer, of the gather and of run_pipeline after it
StageStep(p) ==
    \/ ConsumerGet(p)
    \/ ConsumerAfterSpeaking(p)
    \/ \E ok \in BOOLEAN : ConsumerSynthReturn(p, ok)
    \/ ConsumerAfterEmit(p)
    \/ GatherDone(p)
    \/ SendAudioDone(p)
    \/ SendIdle(p)

\* the event loop runs every task that is ready, and every synthesis call
\* comes back from its thread
SpecLive == Spec /\ \A p \in Pipes : WF_vars(StageStep(p))

\* the invocation was cancelled: its flag is set or its task was cancelled
Cancelled(p) == CancelSet(pipes[p]) \/ pipes[p].pc = "cancelled"

\* the token stream of the invocation ended (it did not raise, and the
\* producer did not return on a set flag)
StreamEnded(p) ==
    /\ ~pipes[p].direct
    /\ pipes[p].prod = "done"
    /\ ~Cancelled(p)

\* the positions of the terminal marker in the queue
Sentinels(p) == {k \in 1..Len(pipes[p].queue) : pipes[p].queue[k].none}

\* the sentences waiting in the queue
Waiting(p) ==
    [k \in 1..(Len(pipes[p].queue) - Cardinality(Sentinels(p))) |->
        pipes[p].queue[k].text]

\* the sentence the consumer has taken and not yet handed to synthesis
\* (it is sending the status "speaking")
Taken(p) == IF pipes[p].cons = "speaking" THEN <<pipes[p].cur>> ELSE <<>>

\* the queue never holds two markers and a marker is its last item; without
\* cancellation the sentences handed to synthesis, followed by those taken
\* and those waiting, are the sentences enqueued
QueueInOrder(p) ==
    /\ Cardinality(Sentinels(p)) <= 1
    /\ \A k \in Sentinels(p) : k = Len(pipes[p].queue)
    /\ (~pipes[p].direct /\ ~Cancelled(p)) =>
          /\ pipes[p].enq = pipes[p].given \o Taken(p) \o Waiting(p)
          /\ pipes[p].handed = Len(pipes[p].given)

\* after the end of the stream: the remainder was flushed into the queue
\* (the sentences enqueued are the text generated), the marker was put, and
\* it is the last item until the consumer takes it and stops
MarkerLast(p) ==
    StreamEnded(p) =>
       /\ pipes[p].buf = <<>>
       /\ WithoutWhitespace(Join(pipes[p].enq, <<>>))
            = WithoutWhitespace(pipes[p].full_response)
       /\ IF pipes[p].cons = "done"
          THEN pipes[p].queue = <<>> /\ pipes[p].given = pipes[p].enq
          ELSE Sentinels(p) = {Len(pipes[p].queue)}
       /\ pipes[p].committed => pipes[p].cons = "done"

\* C28: when the token stream ends without cancellation and every synthesis
\* call returns, the producer enqueues the flush remainder (if any) and then
\* the terminal marker exactly once as the last item, the consumer hands
\* every enqueued sentence to synthesis exactly once in order, and the
\* invocation eventually terminates with history committed.
C28_StreamEndDrainsAndCommits ==
    /\ [](\A p \in Pipes : QueueInOrder(p) /\ MarkerLast(p))
    /\ \A p \in Pipes :
          StreamEnded(p) ~> (Cancelled(p) \/ (pipes[p].committed /\ TaskDone(pipes[p])))

\* a stream of two tokens ended with a remainder to flush; both sentences
\* were handed to synthesis and the invocation is done, its turns appended
C28_Witness ==
    \E p \in Pipes :
       /\ StreamEnded(p)
       /\ pipes[p].tokens = 2
       /\ Len(pipes[p].enq) = 2
       /\ pipes[p].given = pipes[p].enq
       /\ pipes[p].committed
       /\ pipes[p].pc = "done"
       /\ Len(pipes[p].turns) = 2

\* C29: after an error notification has been sent for a streaming voice
\* invocation (for example because the token stream failed in the
\* producer), no audio-chunk notification of that invocation is sent
\* afterwards and no stage of it keeps running.
C29_NothingAfterError ==
    \A p \in Pipes :
       /\ \A j, k \in 1..Len(sent[p]) :
             (j < k /\ IsError(sent[p][j])) => ~IsChunk(sent[p][k])
       /\ Positions(p, IsError) # {} =>
             /\ StagesStopped(pipes[p])
             /\ p \notin executor

(***************************************************************************)
(* The order of the messages of an invocation that completes               *)
(***************************************************************************)
IsTranscript(m) == m.type = "transcript"

IsResponse(m) == m.type = "response"

IsAudioDone(m) == m.type = "audio_done"

\* every message of the first kind comes before every message of the second
Before(p, First(_), Second(_)) ==
    \A j \in Positions(p, First) : \A k \in Positions(p, Second) : j < k

\* the invocation completed without cancellation or error
Completed(p) == pipes[p].pc = "done" /\ ~Cancelled(p)

\* the order of what was sent: the transcript, every audio chunk, the
\* response if the text is not empty, audio_done, the idle status last
SentInOrder(p) ==
    /\ Cardinality(Positions(p, IsTranscript)) <= 1
    /\ Before(p, IsTranscript, IsChunk)
    /\ Before(p, IsTranscript, IsResponse)
    /\ Before(p, IsChunk, IsResponse)
    /\ Cardinality(Positions(p, IsResponse))
         = IF pipes[p].full_response # <<>> THEN 1 ELSE 0
    /\ Cardinality(Positions(p, IsAudioDone)) = 1
    /\ Before(p, IsTranscript, IsAudioDone)
    /\ Before(p, IsChunk, IsAudioDone)
    /\ Before(p, IsResponse, IsAudioDone)
    /\ Before(p, IsAudioDone, IsIdle)
    /\ Positions(p, IsIdle) = {Len(sent[p])}

\* C30 as stated: in a streaming voice invocation over the WebSocket that
\* completes without cancellation or error, the messages are sent in this
\* order: the transcript, every audio chunk, then the response message (only
\* when the response text is non-empty), then audio_done, then the idle
\* status; nothing of that invocation follows the idle status.
C30_TranscriptChunksResponseDoneIdle ==
    \A p \in Pipes :
       Completed(p) =>
          /\ Cardinality(Positions(p, IsTranscript)) = 1
          /\ SentInOrder(p)

\* C30, amended: the same order, with the transcript sent only when it is
\* not blank (a blank transcript ends the invocation with audio_done and
\* the idle status alone).
C30_OrderWithTranscriptUnlessBlank ==
    \A p \in Pipes :
       Completed(p) =>
          /\ Cardinality(Positions(p, IsTranscript))
               = IF pipes[p].transcript # <<>> THEN 1 ELSE 0
          /\ pipes[p].transcript = <<>> =>
                /\ Positions(p, IsChunk) = {}
                /\ Positions(p, IsResponse) = {}
          /\ SentInOrder(p)

\* an invocation completed after the transcript, two audio chunks, the
\* response, audio_done and the idle status
C30_Witness ==
    \E p \in Pipes :
       /\ Completed(p)
       /\ Cardinality(Positions(p, IsTranscript)) = 1
       /\ Cardinality(Positions(p, IsChunk)) = 2
       /\ Cardinality(Positions(p, IsResponse)) = 1
       /\ IsIdle(sent[p][Len(sent[p])])

(***************************************************************************)
(* The stages of a batch voice invocation                                  *)
(***************************************************************************)
\* the two full paths of process_voice
PathDirect == <<"transcribing", "page_check", "direct", "synthesizing", "history">>

PathGenerated ==
    <<"transcribing", "page_check", "retrieving", "generating", "synthesizing",
      "history">>

IsPrefix(a, b) == Len(a) <= Len(b) /\ a = SubSeq(b, 1, Len(a))

Entered(c, stage) == \E k \in 1..Len(c.stages) : c.stages[k] = stage

\* C31: every batch voice invocation passes through its stages in the fixed
\* order transcription, page check, then either retrieval followed by
\* generation or the direct answer, then synthesis, then history update:
\* generation never runs after a successful bypass, synthesis never starts
\* before the response text is complete, and history is never updated
\* before synthesis has finished.
C31_BatchVoiceStagesInOrder ==
    \A i \in Calls :
       calls[i].kind = "voice" =>
          LET c == calls[i]
          IN  /\ IsPrefix(c.stages, PathDirect) \/ IsPrefix(c.stages, PathGenerated)
              /\ Entered(c, "direct") => ~c.llm /\ ~Entered(c, "generating")
              /\ Entered(c, "generating") <=> c.llm
              /\ ~c.spoken.none =>
                    /\ c.spoken.text = c.response
                    /\ c.pc # "generating"
                    /\ Entered(c, "direct") \/ c.llm_ms = 1
              /\ Entered(c, "synthesizing") <=> ~c.spoken.none
              /\ (Entered(c, "history") \/ c.turns # <<>>) => c.audio = "ok"
              /\ c.pc = "generating" => c.audio = "none" /\ c.turns = <<>>

\* two batch voice invocations that updated the history after synthesis, one
\* answered directly and one by generation
C31_Witness ==
    \E i, j \in Calls :
       /\ calls[i].kind = "voice" /\ calls[i].stages = PathDirect
       /\ calls[j].kind = "voice" /\ calls[j].stages = PathGenerated
       /\ calls[i].turns # <<>> /\ calls[j].turns # <<>>

(***************************************************************************)
(* The terminating condition of a sentence returned by add                 *)
(***************************************************************************)
\* the sentences the call of add of this step returned
Added == SubSeq(segmenter'.returned, Len(segmenter.returned) + 1,
                Len(segmenter'.returned))

AddStep == Len(segmenter'.fed) = Len(segmenter.fed) + 1

\* the positions of text where an occurrence of sentence ends
EndsOf(text, sentence) ==
    {j \in Len(sentence)..Len(text) :
        SubSeq(text, j - Len(sentence) + 1, j) = sentence}

\* after position j: whitespace only, then a double newline
FollowedByBreak(text, j) ==
    \E i \in (j + 1)..(Len(text) - 1) :
       /\ text[i] = "\n" /\ text[i + 1] = "\n"
       /\ \A k \in (j + 1)..(i - 1) : text[k] \in Whitespace

\* after position j: whitespace, then an upper-case letter or opening quote
FollowedByOpener(text, j) ==
    /\ j + 2 <= Len(text)
    /\ text[j + 1] \in Whitespace
    /\ SkipWhitespace(text, j) <= Len(text)
    /\ text[SkipWhitespace(text, j)] \in SentenceOpeners

ParagraphEnded(text, sentence) ==
    \E j \in EndsOf(text, sentence) : FollowedByBreak(text, j)

SentenceEnded(text, sentence) ==
    /\ sentence[Len(sentence)] \in SentencePunct
    /\ Len(sentence) >= MIN_SENTENCE_LENGTH
    /\ LastWordBeforePeriod(sentence) \notin _ABBREVIATIONS
    /\ ~EndsInSingleLetter(sentence)
    /\ ~EndsInDecimal(sentence)
    /\ \E j \in EndsOf(text, sentence) : FollowedByOpener(text, j)

ForcedAtClause(text, sentence) ==
    /\ sentence[Len(sentence)] \in ClausePunct
    /\ Len(text) > MAX_BUFFER_LENGTH

HasBreak(text) == \E k \in 1..(Len(text) - 1) : text[k] = "\n" /\ text[k + 1] = "\n"

\* C32: every sentence returned by SentenceBuffer.add (as opposed to flush)
\* met a terminating condition: it was followed in the input by a double
\* newline, or it ends in '.', '!' or '?' followed by whitespace and an
\* uppercase letter or opening quote, is at least MIN_SENTENCE_LENGTH
\* characters long and does not end in a known abbreviation, a
\* single-letter initial or a digit followed by a period, or it is a forced
\* split ending in a clause punctuation mark; text with no such condition
\* stays buffered.
C32_ReturnedSentencesMetCondition ==
    [][AddStep =>
         /\ \A k \in 1..Len(Added) :
               /\ Added[k] # <<>>
               /\ \/ ParagraphEnded(Pending, Added[k])
                  \/ SentenceEnded(Pending, Added[k])
                  \/ ForcedAtClause(Pending, Added[k])
         /\ (Added = <<>> /\ ~HasBreak(Pending)) => segmenter'.buffer = Pending
         /\ (~HasSentenceBoundary(Pending) /\ Len(Pending) <= MAX_BUFFER_LENGTH)
               => Added = <<>>]_vars

\* add came to the sentence end after skipping an initial, an abbreviation
\* and a number, and returned the sentence up to "left."
C32_Witness ==
    /\ segmenter.pc = "fed"
    /\ segmenter.fed = <<FragmentInitials>>
    /\ segmenter.returned = <<SubSeq(FragmentInitials, 1, 69)>>
    /\ segmenter.buffer = SubSeq(FragmentInitials, 71, 73)

(***************************************************************************)
(* The length of the buffer after add                                      *)
(***************************************************************************)
\* C33 as stated: the forced split bounds buffering of run-on output: after
\* any call to add returns, if the text that was pending contained at least
\* one clause boundary (comma, semicolon or colon followed by whitespace and
\* a letter), the pending buffer is no longer than MAX_BUFFER_LENGTH
\* characters.
C33_BufferBoundedAfterAdd ==
    [][(AddStep /\ ClauseBoundaries(Pending) # {})
          => Len(segmenter'.buffer) <= MAX_BUFFER_LENGTH]_vars

\* C33, amended: after any call to add returns, the pending buffer is no
\* longer than MAX_BUFFER_LENGTH characters or contains no clause boundary
\* (a forced split leaves the text after the last clause boundary, however
\* long that text is).
C33_BufferBoundedOrWithoutClause ==
    \/ Len(segmenter.buffer) <= MAX_BUFFER_LENGTH
    \/ ClauseBoundaries(segmenter.buffer) = {}

\* the 600 characters with a comma at position 50 were split by force at
\* the comma: the 549 characters after the blank stay in the buffer
C33_Witness ==
    /\ segmenter.pc = "fed"
    /\ segmenter.fed = <<FragmentComma50>>
    /\ segmenter.returned = <<SubSeq(FragmentComma50, 1, 50)>>
    /\ segmenter.buffer = SubSeq(FragmentComma50, 52, 600)
    /\ Len(segmenter.buffer) > MAX_BUFFER_LENGTH

(***************************************************************************)
(* flush                                                                   *)
(***************************************************************************)
FlushStep == segmenter'.pc = "flushed" /\ segmenter'.fed = segmenter.fed

\* what a SentenceBuffer that was just constructed does with the fragment
\* of this step
FromEmpty == SentenceBufferAdd(<<>>, segmenter'.fed[Len(segmenter'.fed)])

\* C34: SentenceBuffer.flush returns the trimmed pending text when it is
\* non-empty and nothing otherwise, and always leaves the buffer empty: a
\* second flush directly after a flush returns nothing, and a later add
\* starts from an empty buffer.
C34_FlushReturnsRestAndEmpties ==
    [][/\ FlushStep =>
             /\ segmenter'.flushed = Strip(segmenter.buffer)
             /\ segmenter'.buffer = <<>>
             /\ segmenter.pc = "flushed" => segmenter'.flushed = <<>>
       /\ (AddStep /\ segmenter.pc = "flushed") =>
             /\ Added = FromEmpty.sentences
             /\ segmenter'.buffer = FromEmpty.buffer]_vars

\* "Go.", a paragraph break and "Now " were fed, the first flush returned
\* "Now", the second flush returned nothing, and the fragment fed after
\* them is the whole buffer
C34_Witness ==
    /\ segmenter.pc = "fed"
    /\ segmenter.fed = <<FragmentParagraph, FragmentDrSmith>>
    /\ segmenter.flushed = <<>>
    /\ segmenter.buffer = FragmentDrSmith

(***************************************************************************)
(* The sentences of a page read and of a token stream                      *)
(***************************************************************************)
\* the sentences a SentenceBuffer produces when text arrives as a token
\* stream (here as one token) and the stream ends: those add returns, then
\* the flushed rest
StreamSentences(text) ==
    LET r         == SentenceBufferAdd(<<>>, text)
        remaining == SentenceBufferFlush(r.buffer)
    IN  r.sentences \o (IF remaining # <<>> THEN <<remaining>> ELSE <<>>)

\* C35: chunking is uniform regardless of bypass: for any page text, the
\* sequence of sentences synthesized by the streaming direct page-read path
\* equals the sequence the SentenceBuffer produces when the same text
\* arrives as a generation token stream (including texts that contain
\* paragraph breaks).
C35_DirectChunksAsStreamChunks ==
    \A p \in Pipes :
       (pipes[p].direct /\ Completed(p)) =>
          pipes[p].given = StreamSentences(pipes[p].full_response)

(***************************************************************************)
(* The scope of retrieval                                                  *)
(***************************************************************************)
\* the document was stored in the collection under the session's scope
StoredUnder(collection, session_id, document) ==
    \E k \in 1..Len(collection) :
       /\ collection[k].document = document
       /\ collection[k].session_id = session_id

\* the documents a session uploaded
DocIdsOf(session_id) ==
    {built.doc_collection[k].document.doc_id :
        k \in {j \in 1..Len(built.doc_collection) :
                  built.doc_collection[j].session_id = session_id}}

\* C36: retrieval is scoped to the conversation: every document passage,
\* page and conversation-memory entry placed in the context or cited for a
\* query of conversation A was stored under conversation A's scope, also
\* when the scoped store query fails; content of another conversation
\* never appears.
C36_RetrievalScopedToConversation ==
    built.pc = "done" =>
       /\ \A k \in 1..Len(built.page_results) :
             StoredUnder(built.pages_collection, built.session_id,
                         built.page_results[k])
       /\ \A k \in 1..Len(built.chunk_results) :
             StoredUnder(built.doc_collection, built.session_id,
                         built.chunk_results[k])
       /\ \A k \in 1..Len(built.conv_chunks) :
             StoredUnder(built.conv_collection, built.session_id,
                         built.conv_chunks[k])
       /\ \A k \in 1..Len(built.sources) :
             built.sources[k].doc_id \in DocIdsOf(built.session_id)

(***************************************************************************)
(* The history of a conversation                                           *)
(***************************************************************************)
\* an even number of turns that alternate user, assistant
CompleteExchanges(history) ==
    /\ Len(history) % 2 = 0
    /\ \A k \in 1..Len(history) :
          history[k].role = IF k % 2 = 1 THEN "user" ELSE "assistant"

\* C37: in every reachable state a conversation's history is a sequence of
\* complete exchanges: it has even length and alternates user, assistant,
\* user, assistant, also when several invocations (batch, text-stream,
\* voice-stream) interleave on the same conversation or one of them is
\* cancelled or fails.
C37_HistoryIsCompleteExchanges ==
    \A sid \in SessionIds : CompleteExchanges(sessions[sid].history)

\* a voice stream and a text stream that ran at the same time both
\* committed their exchange to one conversation, and a batch invocation on
\* it failed
C37_Witness ==
    \E p \in Pipes, i, j \in Calls :
       /\ pipes[p].committed
       /\ calls[i].kind = "text_stream" /\ calls[i].turns # <<>>
       /\ calls[j].kind = "voice" /\ calls[j].result = "raised"
       /\ calls[i].sid = pipes[p].sid /\ calls[j].sid = pipes[p].sid
       /\ Len(sessions[pipes[p].sid].history) = 4

(***************************************************************************)
(* A deleted session                                                       *)
(***************************************************************************)
\* delete has succeeded for the id: the id was given out and has no session
Deleted(sid) == sid < manager.next /\ ~manager._sessions[sid].exists

\* C38: a deleted conversation is never resurrected: once delete has
\* succeeded for a session id, no later operation of an in-flight
\* invocation on that id (history append, retrieval-flag change, persist)
\* recreates the session in memory or on disk; those operations are silent
\* no-ops and get returns nothing for the id.
C38_DeletedIsNeverResurrected ==
    [][\A sid \in SessionIds :
          Deleted(sid) =>
             /\ manager'._sessions[sid] = NoStamped
             /\ manager'.disk[sid] = NoStamped
             /\ manager'.last.session_id = sid => ~manager'.last.found
             /\ manager'.last.session_id = sid =>
                   /\ manager'._sessions = manager._sessions
                   /\ manager'.disk = manager.disk
                   /\ manager'.now = manager.now]_vars

\* set_rag_enabled was called for session 1 after it was deleted, while
\* session 2 exists
C38_Witness ==
    /\ Deleted(1)
    /\ manager.last = Return("set_rag_enabled", 1, FALSE)
    /\ manager._sessions[2].exists

(***************************************************************************)
(* The sessions directory                                                  *)
(***************************************************************************)
\* C39: persistence mirrors memory: after every SessionManager operation
\* (create, update_title, append_history, set_rag_enabled, delete) the
\* session records stored on disk are exactly the in-memory sessions with
\* the same contents, so reloading from disk reproduces the same set of
\* sessions.
C39_DiskMirrorsMemory ==
    /\ \A sid \in SessionIds : manager.disk[sid] = manager._sessions[sid]
    /\ _load_all(manager.disk) = manager._sessions

\* the sessions were loaded again after a session got a title, a turn and
\* its flag cleared and the other session was deleted
C39_Witness ==
    /\ manager.last.op = "load"
    /\ \E sid \in SessionIds :
          /\ manager._sessions[sid].exists
          /\ manager._sessions[sid].history # <<>>
          /\ ~manager._sessions[sid].rag_enabled
          /\ manager._sessions[sid].title = TitleTrip
          /\ \E other \in SessionIds \ {sid} : Deleted(other)

(***************************************************************************)
(* A cancel message on a connection with more than one utterance           *)
(***************************************************************************)
\* two utterances on one connection, each answered through the normal
\* path, and a cancel message at any point
NextCancel ==
    \/ NextConcurrent
    \/ WsCancel

SpecCancel == InitConcurrent /\ [][NextCancel]_vars

\* a cancel message arrived after the pipeline was started: the handler set
\* the event of this or of a later utterance (events are set in no other
\* step of SpecCancel, and the event of utterance e exists only once the
\* pipelines 1..e have been created)
CancelledAfterStart(p) == \E e \in Pipes : events[e] /\ p <= e

\* the audio chunks and responses sent for a pipeline
Delivered(messages) == SelectSeq(messages, LAMBDA m : IsChunk(m) \/ IsResponse(m))

\* C40: on one connection a cancel message stops every pipeline started
\* before it, also one that an earlier "end" message started and that was
\* still running when a later "end" message started the next: after the
\* cancel none of them sends an audio chunk or a response, or commits
\* history.
C40_CancelStopsEveryPipeline ==
    [][\A p \in Pipes :
          CancelledAfterStart(p) =>
             /\ Delivered(sent'[p]) = Delivered(sent[p])
             /\ pipes'[p].committed = pipes[p].committed]_vars

====
